---- MODULE Spec2Model ----
(***************************************************************************)
(* Model of the ELN export pipeline (app/latex_export.py) and of the       *)
(* signature service (app/digital_signature.py, with its callers in        *)
(* "app/routes (copy).py").                                                *)
(*                                                                         *)
(* Spec      the export pipeline: export_project_to_pdf, and generate_latex*)
(*           followed by generate_pdf as test_pdf_export.py calls them.    *)
(* SpecSign  the signature service: construction, create_signature and the *)
(*           verification route.                                           *)
(***************************************************************************)
EXTENDS Naturals, Integers, Sequences, FiniteSets, TLC

VARIABLES
    \* ---- export pipeline ------------------------------------------------
    fs,            \* the temporary directories: name -> set of entries, for those that exist
    mkdtemp_count, \* how many names tempfile.mkdtemp has handed out
    pc,            \* per call: the position in the code
    caller,        \* per call: "export" (export_project_to_pdf) or "test" (test_latex_export)
    output_path,   \* per call: the output_path argument (None or a path)
    gl_temp_dir,   \* per call: temp_dir of generate_latex (latex_export.py:152)
    temp_dir,      \* per call: temp_dir of the caller (latex_export.py:383,386; test:62)
    runs,          \* per call: the outcome of each pdflatex invocation so far
    pdf_checked,   \* per call: os.path.exists(pdf_file) was evaluated (line 362)
    pdf_read,      \* per call: output.pdf was opened for reading (line 368)
    result,        \* per call: the dict generate_pdf / export_project_to_pdf returned
    raised,        \* per call: an exception left the call
    written,       \* the caller-specified output files that were written
    \* ---- signature service ----------------------------------------------
    key_files,     \* keys/private_key.pem and keys/public_key.pem on disk
    keygen_count,  \* how many RSA key pairs were generated
    service,       \* the DigitalSignature object: private_key, public_key
    signed,        \* the last create_signature call: its arguments and outcome
    verified,      \* the last verification by the current service: arguments and outcome
    config,        \* current_app.config
    \* ---- key initialization ----------------------------------------------
    constructor,   \* per DigitalSignature() call in progress: position, creator, keys held
    \* ---- document composition --------------------------------------------
    composed,      \* the last generate_latex call: its inputs and the markup it returned
    \* ---- RTF extraction --------------------------------------------------
    rtf,           \* a content and what the two extract_text_from_rtf made of it
    \* ---- routes ----------------------------------------------------------
    db,            \* the database: the rows of Project, File and FileVersion, and row locks
    request,       \* per request slot: the request being handled and its response
    handled        \* how many requests were started

vars == <<fs, mkdtemp_count, pc, caller, output_path, gl_temp_dir, temp_dir, runs,
          pdf_checked, pdf_read, result, raised, written,
          key_files, keygen_count, service, signed, verified, config,
          constructor, composed, rtf, db, request, handled>>

exportVars == <<fs, mkdtemp_count, pc, caller, output_path, gl_temp_dir, temp_dir, runs,
                pdf_checked, pdf_read, result, raised, written>>

signVars == <<key_files, keygen_count, service, signed, verified, config>>

keyVars == <<constructor>>

composeVars == <<composed>>

rtfVars == <<rtf>>

routeVars == <<db, request, handled>>

(***************************************************************************)
(* Bounds                                                                  *)
(***************************************************************************)
NumCalls == 2

NumConstructors == 2

MaxFiles == 3

\* the longest content handed to extract_text_from_rtf, in fragments
MaxFragments == 4

\* how many requests the application handles one after another
MaxRequests == 4

\* how many update requests are handled at the same time
NumSlots == 2

Calls == 1..NumCalls

\* Python's None
None == [None |-> TRUE]

\* the name the k-th mkdtemp call returns: mkdtemp never returns an existing name
TmpDir_fixed(k) == [tmp |-> 1]

TmpDir(k) == [tmp |-> k]

TmpDirs == {TmpDir(k) : k \in 1..NumCalls}

(***************************************************************************)
(* Helpers of the export pipeline                                          *)
(***************************************************************************)
\* os.path.exists(d)
Exists(d) == d \in DOMAIN fs

\* tempfile.mkdtemp / os.makedirs: directory d comes to exist with the given entries
MkDir(f, d, entries) == f @@ (d :> entries)

\* shutil.rmtree(d)
RmTree(f, d) == [x \in (DOMAIN f) \ {d} |-> f[x]]

\* a file is created in (or written over in) directory d
AddEntry(f, d, name) == [f EXCEPT ![d] = @ \cup {name}]

\* the dicts generate_pdf and export_project_to_pdf return
Success(content) == [success |-> TRUE, pdf_content |-> content]

Failure(message) == [success |-> FALSE, error |-> message]

\* what one subprocess.run of pdflatex can do (latex_export.py:336-352):
\* exit with code 0, exit with a non-zero code, exceed the timeout, or not start at all
PassOutcomes == {"exit0", "exit1", "timeout", "oserror"}

\* the faults the environment can inject into generate_latex
ComposeFaults == {"none", "mkdtemp", "makedirs", "compose"}

\* process.returncode != 0 for the subprocess of the given run
NonZero(run) == run = "exit1"

Last(s) == s[Len(s)]

(***************************************************************************)
(* Init                                                                    *)
(***************************************************************************)
\* no DigitalSignature object has been constructed yet
NoService == [private_key |-> None, public_key |-> None, constructed |-> FALSE]

\* keys/ holds no key file
NoKeyFiles == [private |-> None, public |-> None]

\* keys/ holds a pair of PEM files that load, but whose keys are not RSA keys (the
\* spec's "malformed key state"): an operator put them there
ForeignKeyFiles == [private |-> [pair |-> 0, rsa |-> FALSE],
                    public |-> [pair |-> 0, rsa |-> FALSE]]

\* config.py:5 sets SECRET_KEY from the environment or to its default; an application
\* configured otherwise may leave it unset
Configs == {[SECRET_KEY |-> "you-will-never-guess"],
            [SECRET_KEY |-> "from-environment"],
            [TESTING |-> TRUE]}

InitExport ==
    /\ fs = <<>>
    /\ mkdtemp_count = 0
    /\ pc = [c \in Calls |-> "idle"]
    /\ caller = [c \in Calls |-> "none"]
    /\ output_path = [c \in Calls |-> None]
    /\ gl_temp_dir = [c \in Calls |-> None]
    /\ temp_dir = [c \in Calls |-> None]
    /\ runs = [c \in Calls |-> <<>>]
    /\ pdf_checked = [c \in Calls |-> FALSE]
    /\ pdf_read = [c \in Calls |-> FALSE]
    /\ result = [c \in Calls |-> None]
    /\ raised = [c \in Calls |-> FALSE]
    /\ written = [c \in Calls |-> FALSE]

InitSign ==
    /\ key_files \in {NoKeyFiles, ForeignKeyFiles}
    /\ keygen_count = 0
    /\ service = NoService
    /\ signed = None
    /\ verified = None
    /\ config \in Configs

\* no DigitalSignature() call has started
InitKeys ==
    constructor = [k \in 1..NumConstructors |->
                      [pc |-> "idle", by |-> "none", private_key |-> None,
                       public_key |-> None, failed |-> "none"]]

\* generate_latex has not been called
InitCompose == composed = None

\* no content was handed to an extract_text_from_rtf
InitRtf == rtf = None

Slots == 1..NumSlots

\* an empty dict: of a session without login, of a JSON body {}, of an empty form
EmptyDict == <<>>

\* no request in a slot
Idle ==
    [pc |-> "idle", route |-> "none", session |-> EmptyDict, data |-> EmptyDict,
     file_id |-> 0, content |-> None, snapshot |-> {}, version_number |-> 0,
     response |-> None]

\* the tables after db.create_all(), in the database of config.py:6
EmptyDb ==
    [engine |-> "sqlite", projects |-> {}, files |-> {}, versions |-> {}, locks |-> {}]

\* no row is stored and no request was received
InitRoutes ==
    /\ db = EmptyDb
    /\ request = [s \in Slots |-> Idle]
    /\ handled = 0

\* the export pipeline starts with no key file and the configuration of config.py
Init ==
    /\ InitExport
    /\ InitSign
    /\ InitKeys
    /\ InitCompose
    /\ InitRtf
    /\ InitRoutes
    /\ key_files = NoKeyFiles
    /\ config = [SECRET_KEY |-> "you-will-never-guess"]

(***************************************************************************)
(* export_project_to_pdf (latex_export.py:380-413) and test_latex_export   *)
(* (test_pdf_export.py:56-82)                                              *)
(***************************************************************************)
\* A caller starts: export_project_to_pdf sets temp_dir = None (line 383) and calls
\* generate_latex; test_latex_export calls generate_latex (line 62). Under Spec the
\* calls follow one another: call c starts when the calls before it have returned.
Call(c) ==
    /\ pc[c] = "idle"
    /\ \A o \in Calls : o < c => pc[o] = "returned"
    /\ \E who \in {"export", "test"}, path \in {None, [path |-> "out.pdf"]} :
          /\ who = "test" => path = None
          /\ caller' = [caller EXCEPT ![c] = who]
          /\ output_path' = [output_path EXCEPT ![c] = path]
    /\ pc' = [pc EXCEPT ![c] = "generate_latex"]
    /\ UNCHANGED <<fs, mkdtemp_count, gl_temp_dir, temp_dir, runs, pdf_checked,
                   pdf_read, result, raised, written>>

ExportOnException_propagates(c, message) ==
    /\ result' = result
    /\ raised' = [raised EXCEPT ![c] = TRUE]
    /\ pc' = [pc EXCEPT ![c] = "finally"]

\* except Exception of export_project_to_pdf (lines 400-404): the exception becomes a
\* Failure dict and control passes to the finally block
ExportOnException(c, message) ==
    /\ result' = [result EXCEPT ![c] = Failure(message)]
    /\ raised' = raised
    /\ pc' = [pc EXCEPT ![c] = "finally"]

\* except Exception of test_latex_export (lines 64-67, 73-76): return False
TestOnException(c) ==
    /\ result' = result
    /\ raised' = raised
    /\ pc' = [pc EXCEPT ![c] = "returned"]

\* an exception leaves generate_latex and reaches the caller's handler
ComposeRaises(c, message) ==
    IF caller[c] = "export" THEN ExportOnException(c, message) ELSE TestOnException(c)

\* generate_latex (lines 147-321) as one step. It creates the Workspace (152-156),
\* composes the markup (158-318) and returns (latex_content, temp_dir); the caller
\* binds temp_dir only when it returns (line 386).
GenerateLatex(c) ==
    /\ pc[c] = "generate_latex"
    /\ \E fault \in ComposeFaults :
        LET d == TmpDir(mkdtemp_count + 1) IN
        CASE fault = "mkdtemp" ->
                \* line 152 raises: nothing was created
                /\ ComposeRaises(c, "mkdtemp failed")
                /\ UNCHANGED <<fs, mkdtemp_count, gl_temp_dir, temp_dir>>
          [] fault = "makedirs" ->
                \* line 155 or 156 raises: temp_dir exists, generate_latex does not return
                /\ fs' = MkDir(fs, d, {})
                /\ mkdtemp_count' = mkdtemp_count + 1
                /\ gl_temp_dir' = [gl_temp_dir EXCEPT ![c] = d]
                /\ ComposeRaises(c, "makedirs failed")
                /\ UNCHANGED temp_dir
          [] fault = "compose" ->
                \* a statement of lines 158-321 raises outside the inner try blocks
                /\ fs' = MkDir(fs, d, {"images", "pdfs"})
                /\ mkdtemp_count' = mkdtemp_count + 1
                /\ gl_temp_dir' = [gl_temp_dir EXCEPT ![c] = d]
                /\ ComposeRaises(c, "composition failed")
                /\ UNCHANGED temp_dir
          [] OTHER ->
                /\ fs' = MkDir(fs, d, {"images", "pdfs"})
                /\ mkdtemp_count' = mkdtemp_count + 1
                /\ gl_temp_dir' = [gl_temp_dir EXCEPT ![c] = d]
                /\ temp_dir' = [temp_dir EXCEPT ![c] = d]
                /\ pc' = [pc EXCEPT ![c] = "write_tex"]
                /\ UNCHANGED <<result, raised>>
    /\ UNCHANGED <<caller, output_path, runs, pdf_checked, pdf_read, written>>

(***************************************************************************)
(* generate_pdf (latex_export.py:323-378)                                  *)
(***************************************************************************)
\* the number of compiler passes: for i in range(2)
Passes == 2

\* generate_pdf returns the dict r to its caller
GpReturn(c, r) ==
    /\ result' = [result EXCEPT ![c] = r]
    /\ pc' = [pc EXCEPT ![c] = "generate_pdf_returned"]

\* except Exception of generate_pdf (lines 374-378)
GpOnException(c, message) == GpReturn(c, Failure(message))

\* lines 327-330: write the markup to output.tex in temp_dir
WriteTex(c) ==
    /\ pc[c] = "write_tex"
    /\ \E ok \in BOOLEAN :
          IF ok
          THEN /\ fs' = AddEntry(fs, temp_dir[c], "output.tex")
               /\ pc' = [pc EXCEPT ![c] = "pdflatex"]
               /\ UNCHANGED result
          ELSE /\ GpOnException(c, "cannot write output.tex")
               /\ UNCHANGED fs
    /\ UNCHANGED <<mkdtemp_count, caller, output_path, gl_temp_dir, temp_dir, runs,
                   pdf_checked, pdf_read, raised, written>>

LoopNext_once(c) ==
    /\ pc' = [pc EXCEPT ![c] = "check_returncode"]
    /\ UNCHANGED result

\* the loop goes on to its next iteration, or ends after the last one
LoopNext(c) ==
    /\ pc' = [pc EXCEPT ![c] = IF Len(runs[c]) + 1 = Passes
                               THEN "check_returncode" ELSE "pdflatex"]
    /\ UNCHANGED result

OnTimeoutExpired_continues(c) == LoopNext(c)

\* except subprocess.TimeoutExpired (lines 350-352): return at once
OnTimeoutExpired(c) == GpReturn(c, Failure("PDF generation timed out"))

\* one iteration of the loop of lines 333-352: one subprocess.run of pdflatex.
\* A run that exits may or may not have produced output.pdf.
RunPdflatex(c) ==
    /\ pc[c] = "pdflatex"
    /\ Len(runs[c]) < Passes
    /\ \E out \in PassOutcomes, pdf \in BOOLEAN :
          /\ pdf => out \in {"exit0", "exit1"}
          /\ runs' = [runs EXCEPT ![c] = Append(@, out)]
          /\ fs' = IF pdf THEN AddEntry(fs, temp_dir[c], "output.pdf") ELSE fs
          /\ CASE out = "timeout" -> OnTimeoutExpired(c)
               [] out = "oserror" -> GpOnException(c, "cannot run pdflatex")
               [] OTHER -> LoopNext(c)
    /\ UNCHANGED <<mkdtemp_count, caller, output_path, gl_temp_dir, temp_dir,
                   pdf_checked, pdf_read, raised, written>>

\* line 354: process is the subprocess of the last iteration
LoopFailed(rs) == NonZero(Last(rs))

\* lines 354-356
CheckReturncode(c) ==
    /\ pc[c] = "check_returncode"
    /\ IF LoopFailed(runs[c])
       THEN GpReturn(c, Failure("PDF generation failed"))
       ELSE /\ pc' = [pc EXCEPT ![c] = "check_pdf"]
            /\ UNCHANGED result
    /\ UNCHANGED <<fs, mkdtemp_count, caller, output_path, gl_temp_dir, temp_dir, runs,
                   pdf_checked, pdf_read, raised, written>>

\* lines 359-364
CheckPdf(c) ==
    /\ pc[c] = "check_pdf"
    /\ pdf_checked' = [pdf_checked EXCEPT ![c] = TRUE]
    /\ IF "output.pdf" \in fs[temp_dir[c]]
       THEN /\ pc' = [pc EXCEPT ![c] = "read_pdf"]
            /\ UNCHANGED result
       ELSE GpReturn(c, Failure("PDF file was not created"))
    /\ UNCHANGED <<fs, mkdtemp_count, caller, output_path, gl_temp_dir, temp_dir, runs,
                   pdf_read, raised, written>>

\* lines 366-372
ReadPdf(c) ==
    /\ pc[c] = "read_pdf"
    /\ pdf_read' = [pdf_read EXCEPT ![c] = TRUE]
    /\ \E ok \in BOOLEAN :
          IF ok THEN GpReturn(c, Success("output.pdf bytes"))
                ELSE GpOnException(c, "cannot read output.pdf")
    /\ UNCHANGED <<fs, mkdtemp_count, caller, output_path, gl_temp_dir, temp_dir, runs,
                   pdf_checked, raised, written>>

(***************************************************************************)
(* after generate_pdf has returned to its caller                           *)
(***************************************************************************)
\* lines 391-398 of export_project_to_pdf
HandleOutput(c) ==
    /\ pc[c] = "generate_pdf_returned"
    /\ caller[c] = "export"
    /\ IF output_path[c] # None /\ result[c].success /\ "pdf_content" \in DOMAIN result[c]
       THEN \E ok \in BOOLEAN :
               IF ok
               THEN /\ written' = [written EXCEPT ![c] = TRUE]
                    /\ result' = [result EXCEPT ![c] =
                                     [success |-> TRUE, pdf_content |-> @.pdf_content,
                                      pdf_path |-> output_path[c]]]
                    /\ pc' = [pc EXCEPT ![c] = "finally"]
                    /\ UNCHANGED raised
               ELSE /\ ExportOnException(c, "cannot write output_path")
                    /\ UNCHANGED written
       ELSE /\ pc' = [pc EXCEPT ![c] = "finally"]
            /\ UNCHANGED <<result, raised, written>>
    /\ UNCHANGED <<fs, mkdtemp_count, caller, output_path, gl_temp_dir, temp_dir, runs,
                   pdf_checked, pdf_read>>

\* the finally block of export_project_to_pdf (lines 406-413). shutil.rmtree of a
\* directory this process created and owns removes it.
Finally(c) ==
    /\ pc[c] = "finally"
    /\ fs' = IF temp_dir[c] # None /\ Exists(temp_dir[c])
             THEN RmTree(fs, temp_dir[c]) ELSE fs
    /\ pc' = [pc EXCEPT ![c] = "returned"]
    /\ UNCHANGED <<mkdtemp_count, caller, output_path, gl_temp_dir, temp_dir, runs,
                   pdf_checked, pdf_read, result, raised, written>>

\* test_latex_export after generate_pdf returned (test_pdf_export.py:78-115): it
\* inspects the result and returns; it removes nothing
TestFinish(c) ==
    /\ pc[c] = "generate_pdf_returned"
    /\ caller[c] = "test"
    /\ pc' = [pc EXCEPT ![c] = "returned"]
    /\ UNCHANGED <<fs, mkdtemp_count, caller, output_path, gl_temp_dir, temp_dir, runs,
                   pdf_checked, pdf_read, result, raised, written>>

Next ==
    \/ \E c \in Calls : Call(c) /\ UNCHANGED <<signVars, keyVars, composeVars, rtfVars, routeVars>>
    \/ \E c \in Calls : GenerateLatex(c) /\ UNCHANGED <<signVars, keyVars, composeVars, rtfVars, routeVars>>
    \/ \E c \in Calls : WriteTex(c) /\ UNCHANGED <<signVars, keyVars, composeVars, rtfVars, routeVars>>
    \/ \E c \in Calls : RunPdflatex(c) /\ UNCHANGED <<signVars, keyVars, composeVars, rtfVars, routeVars>>
    \/ \E c \in Calls : CheckReturncode(c) /\ UNCHANGED <<signVars, keyVars, composeVars, rtfVars, routeVars>>
    \/ \E c \in Calls : CheckPdf(c) /\ UNCHANGED <<signVars, keyVars, composeVars, rtfVars, routeVars>>
    \/ \E c \in Calls : ReadPdf(c) /\ UNCHANGED <<signVars, keyVars, composeVars, rtfVars, routeVars>>
    \/ \E c \in Calls : HandleOutput(c) /\ UNCHANGED <<signVars, keyVars, composeVars, rtfVars, routeVars>>
    \/ \E c \in Calls : Finally(c) /\ UNCHANGED <<signVars, keyVars, composeVars, rtfVars, routeVars>>
    \/ \E c \in Calls : TestFinish(c) /\ UNCHANGED <<signVars, keyVars, composeVars, rtfVars, routeVars>>

Spec == Init /\ [][Next]_vars

(***************************************************************************)
(* Properties of the export pipeline                                       *)
(***************************************************************************)
Returned(c) == pc[c] = "returned"

\* generate_pdf has returned to its caller
RenderReturned(c) == pc[c] \in {"generate_pdf_returned", "finally", "returned"}

IsSuccess(r) ==
    /\ "success" \in DOMAIN r
    /\ r.success
    /\ "pdf_content" \in DOMAIN r
    /\ "error" \notin DOMAIN r

IsFailure(r) ==
    /\ "success" \in DOMAIN r
    /\ ~r.success
    /\ "error" \in DOMAIN r
    /\ "pdf_content" \notin DOMAIN r

\* C1: whenever export_project_to_pdf has returned from a call in which the Workspace
\* directory was created, that directory no longer exists.
C1_WorkspaceGoneOnReturn ==
    \A c \in Calls :
        (caller[c] = "export" /\ Returned(c) /\ gl_temp_dir[c] # None)
            => ~Exists(gl_temp_dir[c])

\* C2: when generate_latex raised after it had created the Workspace directory, the
\* export returns a Failure carrying a message and the Workspace directory is gone.
C2_CompositionFailureCleansUp ==
    \A c \in Calls :
        (caller[c] = "export" /\ Returned(c) /\ gl_temp_dir[c] # None /\ temp_dir[c] = None)
            => (IsFailure(result[c]) /\ ~Exists(gl_temp_dir[c]))

\* C3: an export call raises nothing, and once it has returned its result is either a
\* success with the binary and no error message, or a failure with an error message
\* and no binary.
C3_ExactlyOneResult ==
    \A c \in Calls :
        caller[c] = "export" =>
            /\ ~raised[c]
            /\ Returned(c) => (IsSuccess(result[c]) \/ IsFailure(result[c]))

\* an export whose write to the caller's output path failed has returned
C3_Witness ==
    \E c \in Calls :
        /\ caller[c] = "export" /\ Returned(c)
        /\ pdf_read[c] /\ output_path[c] # None /\ ~written[c]
        /\ IsFailure(result[c])
        /\ result[c].error = "cannot write output_path"

\* C4: when both compiler passes ran to an exit code and at least one of the two codes
\* is non-zero, generate_pdf returns the NonZeroExit failure, with its message and
\* without a binary.
C4_NonZeroExitOnEitherPass ==
    \A c \in Calls :
        (/\ RenderReturned(c)
         /\ Len(runs[c]) = Passes
         /\ \A i \in 1..Passes : runs[c][i] \in {"exit0", "exit1"}
         /\ \E i \in 1..Passes : NonZero(runs[c][i]))
            => result[c] = Failure("PDF generation failed")

\* C5: a pass that timed out is the last pass invoked; generate_pdf has then returned
\* the Timeout failure, without a binary, and the output file was neither looked for
\* nor read.
C5_TimeoutReturnsAtOnce ==
    \A c \in Calls :
        \A i \in 1..Len(runs[c]) :
            runs[c][i] = "timeout" =>
                /\ Len(runs[c]) = i
                /\ RenderReturned(c)
                /\ result[c] = Failure("PDF generation timed out")
                /\ ~pdf_checked[c]
                /\ ~pdf_read[c]

\* a call whose second pass timed out, after a first pass that had produced output.pdf
C5_Witness ==
    \E c \in Calls :
        /\ Len(runs[c]) = 2
        /\ runs[c][2] = "timeout"
        /\ caller[c] = "test"
        /\ "output.pdf" \in fs[temp_dir[c]]
        /\ Returned(c)

\* C6: once generate_pdf, called on its own with the Workspace generate_latex returned,
\* has returned Success or Failure(NonZeroExit), the Workspace directory is gone.
C6_RenderAloneLeavesNoWorkspace ==
    \A c \in Calls :
        (/\ caller[c] = "test"
         /\ RenderReturned(c)
         /\ (IsSuccess(result[c]) \/ result[c] = Failure("PDF generation failed")))
            => ~Exists(temp_dir[c])

(***************************************************************************)
(* The signature service (digital_signature.py)                            *)
(***************************************************************************)
\* bounds of the signature model
MaxKeys == 2

NumSalts == 1

Usernames == {"alice", "bob"}

Timestamps == {"2024-01-01T00:00:00", "2024-01-02T00:00:00"}

\* the keys of additional_data, in the order sort_keys=True puts them
SortedKeys == <<"file_id", "filename">>

\* a value json.dumps cannot serialize (bytes, a set, a datetime)
Unserializable == "b'\\x00'"

ContextValues == {"a.txt", Unserializable}

\* additional_data: None (the default) or a dict
ContextData ==
    {None} \cup UNION {[ks -> ContextValues] : ks \in (SUBSET {"file_id", "filename"}) \ {{}}}

Serializable(d) == d = None \/ \A k \in DOMAIN d : d[k] # Unserializable

\* json.dumps(data, sort_keys=True), for data = {'username':, 'timestamp':, 'data':}:
\* the members in key order, the members of the nested dict in key order
JsonDumps(data) ==
    LET keys == SelectSeq(SortedKeys, LAMBDA k : k \in DOMAIN data.data)
        inner == IF data.data = None
                 THEN [null |-> TRUE]
                 ELSE [object |-> [i \in 1..Len(keys) |-> <<keys[i], data.data[keys[i]]>>]]
    IN  <<[key |-> "data", value |-> inner],
          [key |-> "timestamp", value |-> [string |-> data.timestamp]],
          [key |-> "username", value |-> [string |-> data.username]]>>

\* dict.get of current_app.config
ConfigGet(cfg, key, default) == IF key \in DOMAIN cfg THEN cfg[key] ELSE default

SignSecretKey_ignoresConfig(cfg) == "fallback-secret"

\* line 132
SignSecretKey(cfg) == ConfigGet(cfg, "SECRET_KEY", "fallback-secret")

\* line 192
VerifySecretKey(cfg) == ConfigGet(cfg, "SECRET_KEY", "fallback-secret")

\* hmac.new(secret, msg, sha256).hexdigest(): lowercase hex of the MAC
HmacHexdigest(secret, msg) ==
    [enc |-> "hex", mac |-> [secret |-> secret, msg |-> msg], case |-> "lower"]

\* private_key.sign(msg, PSS(MGF1(SHA256), MAX_LENGTH), SHA256) with an RSA key: the
\* signature depends on the key pair, the message and a random salt
RsaSign(private_key, msg, salt) == [pair |-> private_key.pair, msg |-> msg, salt |-> salt]

RsaVerify_rejects(public_key, signature, msg) == FALSE

\* public_key.verify(signature, msg, PSS(...), SHA256) with an RSA key: TRUE when it
\* returns, FALSE when it raises InvalidSignature
RsaVerify(public_key, signature, msg) ==
    /\ "pair" \in DOMAIN signature
    /\ signature.pair = public_key.pair
    /\ signature.msg = msg

\* base64.b64encode(bytes).decode('utf-8'): the canonical encoding
B64Encode(bytes) == [enc |-> "base64", bytes |-> bytes, slack |-> 0]

\* base64.b64decode(s) (validate=False): characters outside the alphabet are discarded
\* and the unused bits of the last character are ignored, so strings that differ in
\* those (slack # 0) decode to the same bytes; a hexdigest decodes to other bytes; the
\* placeholder of line 156 has 25 alphabet characters and raises binascii.Error
B64Decode(s) ==
    CASE s.enc = "base64" -> [ok |-> TRUE, bytes |-> s.bytes]
      [] s.enc = "hex" -> [ok |-> TRUE, bytes |-> [raw |-> s.mac]]
      [] OTHER -> [ok |-> FALSE]

\* "signature-generation-failed" (line 156)
Placeholder == [enc |-> "text", text |-> "signature-generation-failed"]

\* _load_or_generate_keys (lines 27-77) within DigitalSignature() (lines 14-25).
\* fault names the statement that raises, if any.
ConstructFaults == {"none", "load", "write_private", "write_public"}

Construct ==
    \E fault \in ConstructFaults :
        LET loaded == [private_key |-> key_files.private,
                       public_key |-> key_files.public, constructed |-> TRUE]
            degraded == [private_key |-> None, public_key |-> None, constructed |-> TRUE]
            new == [pair |-> keygen_count + 1, rsa |-> TRUE]
        IN
        /\ IF key_files.private # None /\ key_files.public # None
           THEN \* lines 31-45
                /\ fault \in {"none", "load"}
                /\ service' = IF fault = "load" THEN degraded ELSE loaded
                /\ UNCHANGED <<key_files, keygen_count>>
           ELSE \* lines 47-72
                /\ fault \in {"none", "write_private", "write_public"}
                /\ keygen_count < MaxKeys
                /\ keygen_count' = keygen_count + 1
                /\ key_files' =
                      CASE fault = "write_private" -> key_files
                        [] fault = "write_public" -> [key_files EXCEPT !.private = new]
                        [] OTHER -> [private |-> new, public |-> new]
                /\ service' = IF fault = "none"
                              THEN [private_key |-> new, public_key |-> new,
                                    constructed |-> TRUE]
                              ELSE degraded
        /\ verified' = None
        /\ UNCHANGED <<signed, config>>

\* the dicts create_signature returns (lines 121-128, 141-148, 152-159)
SignatureRecord(username, timestamp, additional_data, signature, algorithm) ==
    [username |-> username, timestamp |-> timestamp, data |-> additional_data,
     signature |-> signature, algorithm |-> algorithm]

DegenerateRecord(username, timestamp, additional_data) ==
    [username |-> username, timestamp |-> timestamp, data |-> additional_data,
     signature |-> Placeholder, algorithm |-> "none", error |-> "str(e)"]

\* create_signature (lines 84-159): [raised, ret]. json.dumps (line 104) runs before the
\* try of line 106; the try covers the RSA and the HMAC branch.
CreateSignature(svc, cfg, username, timestamp, additional_data, salt) ==
    LET data == [username |-> username, timestamp |-> timestamp, data |-> additional_data]
    IN
    IF ~Serializable(additional_data)
    THEN [raised |-> TRUE, ret |-> None]
    ELSE IF svc.private_key # None
         THEN IF svc.private_key.rsa
              THEN [raised |-> FALSE,
                    ret |-> SignatureRecord(username, timestamp, additional_data,
                               B64Encode(RsaSign(svc.private_key, JsonDumps(data), salt)),
                               "RSA-PSS")]
              ELSE \* sign raises TypeError: except of lines 149-159
                   [raised |-> FALSE,
                    ret |-> DegenerateRecord(username, timestamp, additional_data)]
         ELSE [raised |-> FALSE,
               ret |-> SignatureRecord(username, timestamp, additional_data,
                          HmacHexdigest(SignSecretKey(cfg), JsonDumps(data)),
                          "HMAC-SHA256")]

\* the try block of verify_signature (lines 173-200): the value it returns, or the
\* exception a statement of it raises
VerifyTry(svc, cfg, data, signature_b64) ==
    IF svc.public_key # None
    THEN IF ~B64Decode(signature_b64).ok
         THEN [exception |-> "binascii.Error"]
         ELSE IF ~svc.public_key.rsa
              THEN [exception |-> "TypeError"]
              ELSE IF RsaVerify(svc.public_key, B64Decode(signature_b64).bytes, data)
                   THEN [exception |-> "none", value |-> TRUE]
                   ELSE [exception |-> "InvalidSignature"]
    ELSE [exception |-> "none",
          value |-> signature_b64 = HmacHexdigest(VerifySecretKey(cfg), data)]

VerifyOnException_propagates(e) == [raised |-> TRUE, valid |-> FALSE, exception |-> e]

\* except Exception of verify_signature (lines 201-203): return False
VerifyOnException(e) == [raised |-> FALSE, valid |-> FALSE, exception |-> e]

\* one call of verify_signature (lines 161-203): whether it raised, and what it returned
VerifySignatureCall(svc, cfg, data, signature_b64) ==
    LET body == VerifyTry(svc, cfg, data, signature_b64)
    IN  IF body.exception = "none"
        THEN [raised |-> FALSE, valid |-> body.value, exception |-> "none"]
        ELSE VerifyOnException(body.exception)

\* verify_signature (lines 161-203): the boolean it returns
VerifySignature(svc, cfg, data, signature_b64) ==
    VerifySignatureCall(svc, cfg, data, signature_b64).valid

\* a caller signs (routes (copy).py:46, 114)
Sign ==
    /\ service.constructed
    /\ \E username \in Usernames, timestamp \in Timestamps,
          additional_data \in ContextData, salt \in 1..NumSalts :
          LET out == CreateSignature(service, config, username, timestamp,
                                     additional_data, salt)
          IN  signed' = [args |-> [username |-> username, timestamp |-> timestamp,
                                   data |-> additional_data],
                         service |-> service,
                         raised |-> out.raised,
                         ret |-> out.ret]
    /\ verified' = None
    /\ UNCHANGED <<key_files, keygen_count, service, config>>

\* what a client can turn the signature string of a record into before it sends the
\* record back: the string itself; a string that differs from it only in characters
\* b64decode discards or in the unused bits of its last character, or only in the case
\* of its hex digits; the encoding of other bytes; a signature of the same message
\* made with another RSA key; the placeholder
Tamperings(s) ==
    {s, Placeholder}
    \cup (IF s.enc = "base64"
          THEN {[s EXCEPT !.slack = 1], B64Encode([tampered |-> TRUE]),
                B64Encode([s.bytes EXCEPT !.pair = @ + 1])}
          ELSE {})
    \cup (IF s.enc = "hex"
          THEN {[s EXCEPT !.case = "upper"],
                [enc |-> "hex", mac |-> [tampered |-> TRUE], case |-> "lower"]}
          ELSE {})

\* the number of the fields username, timestamp, data in which two dicts differ
Differences(a, b) ==
    (IF a.username # b.username THEN 1 ELSE 0)
    + (IF a.timestamp # b.timestamp THEN 1 ELSE 0)
    + (IF a.data # b.data THEN 1 ELSE 0)

\* the verification route (routes (copy).py:55-81): the client sends back the record of
\* the last signature, as it was or with its signature or one of its fields changed;
\* the route rebuilds the JSON string (lines 66-71) and calls verify_signature (75)
Verify ==
    /\ service.constructed
    /\ signed # None
    /\ ~signed.raised
    /\ \E username \in Usernames, timestamp \in Timestamps,
          data \in {d \in ContextData : Serializable(d)},
          signature \in Tamperings(signed.ret.signature) :
          LET original_data == [username |-> username, timestamp |-> timestamp,
                                data |-> data]
          IN  /\ Differences(original_data, signed.args) <= 1
              /\ verified' = [signature_data |-> [username |-> username,
                                                  timestamp |-> timestamp,
                                                  data |-> data,
                                                  signature |-> signature],
                              call |-> VerifySignatureCall(service, config,
                                            JsonDumps(original_data), signature),
                              valid |-> VerifySignature(service, config,
                                            JsonDumps(original_data), signature)]
    /\ UNCHANGED <<key_files, keygen_count, service, signed, config>>

NextSign ==
    \/ Construct /\ UNCHANGED <<exportVars, keyVars, composeVars, rtfVars, routeVars>>
    \/ Sign /\ UNCHANGED <<exportVars, keyVars, composeVars, rtfVars, routeVars>>
    \/ Verify /\ UNCHANGED <<exportVars, keyVars, composeVars, rtfVars, routeVars>>

SignInit == InitExport /\ InitSign /\ InitKeys /\ InitCompose /\ InitRtf /\ InitRoutes

SpecSign == SignInit /\ [][NextSign]_vars

(***************************************************************************)
(* Properties of the signature service                                     *)
(***************************************************************************)
\* the last create_signature call returned a record
SignReturned == signed # None /\ ~signed.raised

\* the record of the last signature as the verification route receives it, unchanged
OriginalSignatureData ==
    [username |-> signed.ret.username, timestamp |-> signed.ret.timestamp,
     data |-> signed.ret.data, signature |-> signed.ret.signature]

\* the service that verifies is in the key state of the service that signed
SameKeyState ==
    /\ service.private_key = signed.service.private_key
    /\ service.public_key = signed.service.public_key

\* C7: when a service with an RSA key pair loaded signed a payload, and a service in the
\* same key state verifies the canonical serialization of the same three fields with
\* the returned signature, the verification returns true.
C7_VerifyOfSignIsTrue ==
    (/\ SignReturned
     /\ verified # None
     /\ signed.service.private_key # None
     /\ signed.service.private_key.rsa
     /\ SameKeyState
     /\ verified.signature_data = OriginalSignatureData)
        => verified.valid

\* an RSA-PSS signature was verified, unchanged, by a service in the same key state
C7_Witness ==
    /\ SignReturned
    /\ verified # None
    /\ signed.ret.algorithm = "RSA-PSS"
    /\ signed.args.data # None
    /\ SameKeyState
    /\ verified.signature_data = OriginalSignatureData
    /\ verified.valid

\* C8: when the record of an RSA-PSS or HMAC-SHA256 signature reaches verification
\* with its signature value or one of its fields username, timestamp, data changed,
\* the verification returns false.
C8_TamperingDetected ==
    (/\ SignReturned
     /\ verified # None
     /\ signed.ret.algorithm \in {"RSA-PSS", "HMAC-SHA256"}
     /\ SameKeyState
     /\ verified.signature_data # OriginalSignatureData)
        => ~verified.valid

\* C9: a service without asymmetric key signs with HMAC-SHA256 over the canonical
\* payload under the application secret, and a service without asymmetric key verifies
\* that payload and signature as true.
C9_HmacFallback ==
    (SignReturned /\ signed.service.private_key = None) =>
        /\ signed.ret.algorithm = "HMAC-SHA256"
        /\ signed.ret.signature =
              [enc |-> "hex",
               mac |-> [secret |-> ConfigGet(config, "SECRET_KEY", "fallback-secret"),
                        msg |-> JsonDumps(signed.args)],
               case |-> "lower"]
        /\ (/\ verified # None
            /\ service.public_key = None
            /\ verified.signature_data = OriginalSignatureData) => verified.valid

\* an HMAC-SHA256 signature made under a configured SECRET_KEY was verified, unchanged,
\* by a service without asymmetric key
C9_Witness ==
    /\ SignReturned
    /\ signed.service.private_key = None
    /\ signed.ret.algorithm = "HMAC-SHA256"
    /\ "SECRET_KEY" \in DOMAIN config
    /\ verified # None
    /\ service.public_key = None
    /\ verified.signature_data = OriginalSignatureData
    /\ verified.valid

\* C10: create_signature raises nothing: every call returns a record, and the record is
\* the degenerate one when the context data cannot be serialized.
C10_SignNeverRaises ==
    signed # None =>
        /\ ~signed.raised
        /\ "algorithm" \in DOMAIN signed.ret
        /\ ~Serializable(signed.args.data) => signed.ret.algorithm = "none"

\* C11: verify_signature raises nothing: every call returns a boolean, and it returns
\* false whenever a statement of its try block raised.
C11_VerifyNeverRaises ==
    verified # None =>
        /\ ~verified.call.raised
        /\ verified.call.valid \in BOOLEAN
        /\ verified.call.exception # "none" => ~verified.call.valid

\* the placeholder of a failed signing reached a service with an RSA public key:
\* b64decode raised and the verification returned false
C11_Witness ==
    /\ verified # None
    /\ verified.signature_data.signature = Placeholder
    /\ service.public_key # None
    /\ verified.call.exception = "binascii.Error"
    /\ ~verified.call.raised
    /\ ~verified.call.valid

\* C12: the record of a valid HMAC-SHA256 signature, sent back unchanged, is verified
\* by HMAC recomputation and accepted, whether or not the verifying service has an RSA
\* key pair loaded.
C12_DispatchOnAlgorithm ==
    (/\ SignReturned
     /\ verified # None
     /\ signed.ret.algorithm = "HMAC-SHA256"
     /\ verified.signature_data = OriginalSignatureData)
        => verified.valid

(***************************************************************************)
(* Key initialization, statement by statement, for DigitalSignature()      *)
(* calls that overlap: digital_signature.py:14-77                          *)
(***************************************************************************)
Constructors == 1..NumConstructors

\* who calls DigitalSignature(): get_signature_manager (routes (copy).py:19-21) or
\* LatexExport.__init__ (latex_export.py:65-71), itself called by get_latex per request
Creators == {"route", "exporter"}

\* DigitalSignature() is called (lines 14-19)
New(k) ==
    /\ constructor[k].pc = "idle"
    /\ \A o \in Constructors : o < k => constructor[o].pc # "idle"
    /\ \E by \in Creators :
          constructor' = [constructor EXCEPT ![k].pc = "makedirs", ![k].by = by]
    /\ UNCHANGED <<key_files, keygen_count>>

\* os.makedirs(keys directory, exist_ok=True) (line 22), outside any try: an OSError
\* leaves __init__, and LatexExport.__init__ catches ImportError only
Makedirs(k) ==
    /\ constructor[k].pc = "makedirs"
    /\ \E ok \in BOOLEAN :
          constructor' = [constructor EXCEPT
                             ![k].pc = IF ok THEN "check" ELSE "raised",
                             ![k].failed = IF ok THEN "none" ELSE "makedirs"]
    /\ UNCHANGED <<key_files, keygen_count>>

\* except Exception of _load_or_generate_keys (lines 73-77): both keys None
KeysOnException(k, statement) ==
    [constructor EXCEPT ![k].pc = "done", ![k].private_key = None,
                        ![k].public_key = None, ![k].failed = statement]

\* if os.path.exists(private) and os.path.exists(public) (line 30)
CheckExists(k) ==
    /\ constructor[k].pc = "check"
    /\ constructor' = [constructor EXCEPT ![k].pc =
                          IF key_files.private # None /\ key_files.public # None
                          THEN "load" ELSE "generate"]
    /\ UNCHANGED <<key_files, keygen_count>>

\* load both key files (lines 31-45)
Load(k) ==
    /\ constructor[k].pc = "load"
    /\ \E ok \in BOOLEAN :
          constructor' = IF ok
                         THEN [constructor EXCEPT ![k].pc = "done",
                                                  ![k].private_key = key_files.private,
                                                  ![k].public_key = key_files.public]
                         ELSE KeysOnException(k, "load")
    /\ UNCHANGED <<key_files, keygen_count>>

\* rsa.generate_private_key and public_key() (lines 47-53)
Generate(k) ==
    /\ constructor[k].pc = "generate"
    /\ keygen_count < MaxKeys
    /\ keygen_count' = keygen_count + 1
    /\ constructor' = [constructor EXCEPT
                          ![k].pc = "write_private",
                          ![k].private_key = [pair |-> keygen_count + 1, rsa |-> TRUE],
                          ![k].public_key = [pair |-> keygen_count + 1, rsa |-> TRUE]]
    /\ UNCHANGED key_files

\* open(private_key_path, 'wb') and write (lines 55-62)
WritePrivate(k) ==
    /\ constructor[k].pc = "write_private"
    /\ \E ok \in BOOLEAN :
          IF ok
          THEN /\ key_files' = [key_files EXCEPT !.private = constructor[k].private_key]
               /\ constructor' = [constructor EXCEPT ![k].pc = "write_public"]
          ELSE /\ constructor' = KeysOnException(k, "write_private")
               /\ UNCHANGED key_files
    /\ UNCHANGED keygen_count

\* open(public_key_path, 'wb') and write (lines 64-70)
WritePublic(k) ==
    /\ constructor[k].pc = "write_public"
    /\ \E ok \in BOOLEAN :
          IF ok
          THEN /\ key_files' = [key_files EXCEPT !.public = constructor[k].public_key]
               /\ constructor' = [constructor EXCEPT ![k].pc = "done"]
          ELSE /\ constructor' = KeysOnException(k, "write_public")
               /\ UNCHANGED key_files
    /\ UNCHANGED keygen_count

serviceVars == <<service, signed, verified, config>>

NextKeys ==
    \/ \E k \in Constructors : New(k) /\ UNCHANGED <<exportVars, serviceVars, composeVars, rtfVars, routeVars>>
    \/ \E k \in Constructors : Makedirs(k) /\ UNCHANGED <<exportVars, serviceVars, composeVars, rtfVars, routeVars>>
    \/ \E k \in Constructors : CheckExists(k) /\ UNCHANGED <<exportVars, serviceVars, composeVars, rtfVars, routeVars>>
    \/ \E k \in Constructors : Load(k) /\ UNCHANGED <<exportVars, serviceVars, composeVars, rtfVars, routeVars>>
    \/ \E k \in Constructors : Generate(k) /\ UNCHANGED <<exportVars, serviceVars, composeVars, rtfVars, routeVars>>
    \/ \E k \in Constructors : WritePrivate(k) /\ UNCHANGED <<exportVars, serviceVars, composeVars, rtfVars, routeVars>>
    \/ \E k \in Constructors : WritePublic(k) /\ UNCHANGED <<exportVars, serviceVars, composeVars, rtfVars, routeVars>>

\* the process starts with no key file or with a stored pair
KeysInit ==
    /\ InitExport
    /\ InitSign
    /\ InitKeys
    /\ InitCompose
    /\ InitRtf
    /\ InitRoutes
    /\ config = [SECRET_KEY |-> "you-will-never-guess"]

SpecKeys == KeysInit /\ [][NextKeys]_vars

\* the constructor call has ended, by returning or by raising
Constructed(k) == constructor[k].pc \in {"done", "raised"}

\* the calls that entered _load_or_generate_keys (line 25)
KeyInitializations ==
    {k \in Constructors : constructor[k].pc \notin {"idle", "makedirs", "raised"}}

\* the calls inside the generate branch (lines 47-72)
Generating ==
    {k \in Constructors : constructor[k].pc \in {"generate", "write_private", "write_public"}}

\* C13: no DigitalSignature() call raises: whatever failed during construction, the
\* call returns a service with both keys absent (and LatexExport.__init__, which
\* assigns the service, goes on).
C13_ConstructionNeverFails ==
    \A k \in Constructors :
        /\ constructor[k].pc # "raised"
        /\ (constructor[k].pc = "done" /\ constructor[k].failed # "none")
              => (constructor[k].private_key = None /\ constructor[k].public_key = None)

\* C14: no step changes the content of a key file that is stored, and the generate
\* branch is entered only when neither key file is stored.
C14_StoredKeyFileNeverReplaced ==
    [][/\ \A f \in {"private", "public"} :
              key_files[f] # None => key_files'[f] = key_files[f]
       /\ \A k \in Constructors :
              (constructor[k].pc = "check" /\ constructor'[k].pc = "generate")
                  => (key_files.private = None /\ key_files.public = None)]_vars

\* C15: at most one DigitalSignature() call of the process enters
\* _load_or_generate_keys, and no two calls are inside the generate branch at once.
C15_KeyInitializationOnce ==
    /\ Cardinality(KeyInitializations) <= 1
    /\ Cardinality(Generating) <= 1

(***************************************************************************)
(* Exports of requests that overlap: each request thread runs              *)
(* get_latex().export_project_to_pdf(project, files) (routes.py:881-882)   *)
(***************************************************************************)
\* a request enters export_project_to_pdf, whatever the requests before it are doing;
\* the route passes no output_path. Requests are numbered in the order in which they
\* reach generate_latex: entering changes nothing another request can see.
Request(c) ==
    /\ pc[c] = "idle"
    /\ \A o \in Calls : o < c => pc[o] \notin {"idle", "generate_latex"}
    /\ caller' = [caller EXCEPT ![c] = "export"]
    /\ pc' = [pc EXCEPT ![c] = "generate_latex"]
    /\ UNCHANGED <<fs, mkdtemp_count, output_path, gl_temp_dir, temp_dir, runs,
                   pdf_checked, pdf_read, result, raised, written>>

NextConcurrent ==
    \/ \E c \in Calls : Request(c) /\ UNCHANGED <<signVars, keyVars, composeVars, rtfVars, routeVars>>
    \/ \E c \in Calls : GenerateLatex(c) /\ UNCHANGED <<signVars, keyVars, composeVars, rtfVars, routeVars>>
    \/ \E c \in Calls : WriteTex(c) /\ UNCHANGED <<signVars, keyVars, composeVars, rtfVars, routeVars>>
    \/ \E c \in Calls : RunPdflatex(c) /\ UNCHANGED <<signVars, keyVars, composeVars, rtfVars, routeVars>>
    \/ \E c \in Calls : CheckReturncode(c) /\ UNCHANGED <<signVars, keyVars, composeVars, rtfVars, routeVars>>
    \/ \E c \in Calls : CheckPdf(c) /\ UNCHANGED <<signVars, keyVars, composeVars, rtfVars, routeVars>>
    \/ \E c \in Calls : ReadPdf(c) /\ UNCHANGED <<signVars, keyVars, composeVars, rtfVars, routeVars>>
    \/ \E c \in Calls : HandleOutput(c) /\ UNCHANGED <<signVars, keyVars, composeVars, rtfVars, routeVars>>
    \/ \E c \in Calls : Finally(c) /\ UNCHANGED <<signVars, keyVars, composeVars, rtfVars, routeVars>>

ConcurrentInit ==
    /\ InitExport
    /\ InitSign
    /\ InitKeys
    /\ InitCompose
    /\ InitRtf
    /\ InitRoutes
    /\ key_files = NoKeyFiles
    /\ config = [SECRET_KEY |-> "you-will-never-guess"]

SpecConcurrent == ConcurrentInit /\ [][NextConcurrent]_vars

\* call c takes the step
Acts(c) == pc'[c] # pc[c] \/ runs'[c] # runs[c]

\* the step leaves directory d as it was
Untouched(d) == (d \in DOMAIN fs) = (d \in DOMAIN fs') /\ (d \in DOMAIN fs => fs'[d] = fs[d])

\* C16: exports in progress at once have distinct Workspace directories, the directory
\* a call works in is the one it created, and a step of one call - its cleanup
\* included - creates, changes or removes nothing but its own directory.
C16_WorkspacesDisjoint ==
    /\ [](\A c1, c2 \in Calls :
              (c1 # c2 /\ gl_temp_dir[c1] # None) => gl_temp_dir[c1] # gl_temp_dir[c2])
    /\ [](\A c \in Calls : temp_dir[c] # None => temp_dir[c] = gl_temp_dir[c])
    /\ [][\A c \in Calls : Acts(c) =>
              \A d \in (DOMAIN fs) \cup (DOMAIN fs') :
                  d # gl_temp_dir'[c] => Untouched(d)]_vars

\* two exports are in progress, each with its Workspace on disk: one is about to
\* clean up while the other is between compiler passes
C16_Witness ==
    \E c1, c2 \in Calls :
        /\ c1 # c2
        /\ pc[c1] = "finally" /\ temp_dir[c1] # None /\ Exists(temp_dir[c1])
        /\ pc[c2] = "pdflatex" /\ Len(runs[c2]) = 1 /\ Exists(temp_dir[c2])
        /\ temp_dir[c1] # temp_dir[c2]

(***************************************************************************)
(* Document composition: generate_latex (latex_export.py:147-321)          *)
(* A Python str is [str |-> the sequence of its characters], so that it    *)
(* can be told from None. Markup text is a sequence of tokens:             *)
(* [char |-> c] is the character c as it stands, [repl |-> r] is a         *)
(* replacement the escape table put in.                                    *)
(***************************************************************************)
Str(chars) == [str |-> chars]

\* a string put into the markup as it is
Raw(text) == [i \in 1..Len(text.str) |-> [char |-> text.str[i]]]

conv_without_underscore ==
    ("&" :> "\\&") @@ ("%" :> "\\%") @@ ("$" :> "\\$") @@ ("#" :> "\\#")
    @@ ("{" :> "\\{") @@ ("}" :> "\\}")
    @@ ("~" :> "\\textasciitilde{}") @@ ("^" :> "\\^{}")
    @@ ("\\" :> "\\textbackslash{}") @@ ("<" :> "\\textless{}")
    @@ (">" :> "\\textgreater{}")

\* the table of tex_escape (lines 79-92)
conv ==
    ("&" :> "\\&") @@ ("%" :> "\\%") @@ ("$" :> "\\$") @@ ("#" :> "\\#")
    @@ ("_" :> "\\_") @@ ("{" :> "\\{") @@ ("}" :> "\\}")
    @@ ("~" :> "\\textasciitilde{}") @@ ("^" :> "\\^{}")
    @@ ("\\" :> "\\textbackslash{}") @@ ("<" :> "\\textless{}")
    @@ (">" :> "\\textgreater{}")

\* the twelve characters the escape table is about
SourceChars == {"&", "%", "$", "#", "_", "{", "}", "~", "^", "\\", "<", ">"}

\* tex_escape (lines 73-94): None gives ""; otherwise one pass of regex.sub over the
\* text, each character that is a key of conv giving way to its replacement
tex_escape(text) ==
    IF text = None THEN <<>>
    ELSE [i \in 1..Len(text.str) |->
             IF text.str[i] \in DOMAIN conv THEN [repl |-> conv[text.str[i]]]
                                            ELSE [char |-> text.str[i]]]

\* the characters of [a-zA-Z0-9_.-] that occur in the strings of this model
SafeChars == {"a", "b", "d", "f", "g", "n", "p", "t", "x", "D", "F", "P",
              "1", "2", "_", ".", "-"}

\* re.sub(r'[^a-zA-Z0-9_.-]', '_', filename) (lines 213, 240)
safe_name(filename) ==
    Str([i \in 1..Len(filename.str) |->
            IF filename.str[i] \in SafeChars THEN filename.str[i] ELSE "_"])

\* str.lower() on the letters of this model
Lower(text) ==
    Str([i \in 1..Len(text.str) |->
            CASE text.str[i] = "D" -> "d" [] text.str[i] = "F" -> "f"
              [] text.str[i] = "P" -> "p" [] OTHER -> text.str[i]])

\* str.endswith
EndsWith(text, suffix) ==
    /\ Len(text.str) >= Len(suffix)
    /\ SubSeq(text.str, Len(text.str) - Len(suffix) + 1, Len(text.str)) = suffix

\* an object without the attribute: hasattr(...) is False
Missing == [missing |-> TRUE]

\* the datetimes stored in updated_at
StoredTimes == {1, 2}

\* datetime.now() at the nth evaluation of the sort key (line 160): after every stored
\* time; tick tells whether the clock moved on between two evaluations
Now(nth, tick) == 2 + (IF tick THEN nth ELSE 1)

\* the key of line 160: f.updated_at if hasattr(f, 'updated_at') else datetime.now()
SortKey(f, nth, tick) ==
    IF f.updated_at = Missing THEN Now(nth, tick)
    ELSE IF f.updated_at = None THEN None
    ELSE f.updated_at.t

\* x, which came later in the input, goes behind every element whose key is not
\* smaller: sorted(..., reverse=True) is stable
InsertDescending(sorted, x) ==
    LET n == Cardinality({i \in 1..Len(sorted) : sorted[i].key >= x.key})
    IN  SubSeq(sorted, 1, n) \o <<x>> \o SubSeq(sorted, n + 1, Len(sorted))

RECURSIVE SortDescending(_)
SortDescending(keyed) ==
    IF keyed = <<>> THEN <<>>
    ELSE InsertDescending(SortDescending(SubSeq(keyed, 1, Len(keyed) - 1)),
                          keyed[Len(keyed)])

\* lines 158-164: sorted(files, key=..., reverse=True). Comparing None with a datetime
\* (or with None) raises TypeError, which every sort of two or more elements with a
\* None key runs into; the except clause then keeps the input order.
sorted_files(files, tick) ==
    LET keyed == [i \in 1..Len(files) |->
                     [file |-> files[i], key |-> SortKey(files[i], i, tick)]]
    IN  IF Len(files) >= 2 /\ \E i \in 1..Len(files) : files[i].updated_at = None
        THEN files
        ELSE [i \in 1..Len(files) |-> SortDescending(keyed)[i].file]

\* the pieces of the marker pattern r'\[Signed: (.*?) at (.*?)\]' (line 134); a piece
\* is one element of a string of this model
MarkerOpen == "[Signed: "
MarkerAt == " at "
MarkerClose == "]"

(***************************************************************************)
(* RTF extraction: rtf_handler.py:22-49 and latex_export.py:100-115.       *)
(* A text is the sequence of its characters; each re.sub is one scan from  *)
(* left to right that replaces the leftmost match and goes on behind it.   *)
(***************************************************************************)

\* [a-z0-9]
LowerOrDigit ==
    {"a", "b", "c", "d", "e", "f", "g", "h", "i", "j", "k", "l", "m", "n", "o", "p",
     "q", "r", "s", "t", "u", "v", "w", "x", "y", "z",
     "0", "1", "2", "3", "4", "5", "6", "7", "8", "9"}

\* [0-9a-f]
HexDigit ==
    {"0", "1", "2", "3", "4", "5", "6", "7", "8", "9", "a", "b", "c", "d", "e", "f"}

\* \s, and what str.strip() removes
Whitespace == {" ", "\t", "\n", "\r", "\f"}

\* how many characters of the class follow each other from position i on
RECURSIVE RunLength(_, _, _)
RunLength(chars, i, class) ==
    IF i > Len(chars) \/ chars[i] \notin class THEN 0
    ELSE 1 + RunLength(chars, i + 1, class)

\* re.sub(r'\\[a-z0-9]+', ' ', text): a backslash and the longest run of lower-case
\* letters and digits behind it become one blank
RECURSIVE RemoveControlWords(_, _)
RemoveControlWords(chars, i) ==
    IF i > Len(chars) THEN <<>>
    ELSE LET n == IF chars[i] = "\\" THEN RunLength(chars, i + 1, LowerOrDigit) ELSE 0
         IN  IF n > 0 THEN <<" ">> \o RemoveControlWords(chars, i + 1 + n)
             ELSE <<chars[i]>> \o RemoveControlWords(chars, i + 1)

\* re.sub(r'\{|\}', '', text)
RemoveBraces(chars) == SelectSeq(chars, LAMBDA ch : ch \notin {"{", "}"})

\* re.sub(r'\\\'[0-9a-f]{2}', '', text)
RECURSIVE RemoveHexEscapes(_, _)
RemoveHexEscapes(chars, i) ==
    IF i > Len(chars) THEN <<>>
    ELSE IF /\ i + 3 <= Len(chars)
            /\ chars[i] = "\\" /\ chars[i + 1] = "'"
            /\ chars[i + 2] \in HexDigit /\ chars[i + 3] \in HexDigit
         THEN RemoveHexEscapes(chars, i + 4)
         ELSE <<chars[i]>> \o RemoveHexEscapes(chars, i + 1)

\* re.sub(r'\\par', '\n', text)
RECURSIVE ReplaceParagraphMarks(_, _)
ReplaceParagraphMarks(chars, i) ==
    IF i > Len(chars) THEN <<>>
    ELSE IF i + 3 <= Len(chars) /\ SubSeq(chars, i, i + 3) = <<"\\", "p", "a", "r">>
         THEN <<"\n">> \o ReplaceParagraphMarks(chars, i + 4)
         ELSE <<chars[i]>> \o ReplaceParagraphMarks(chars, i + 1)

\* re.sub(r'\\\*.*?;', '', text): from a backslash and a star up to the first
\* semicolon behind them, if no newline stands between ('.' matches no newline)
RECURSIVE RemoveStarred(_, _)
RemoveStarred(chars, i) ==
    IF i > Len(chars) THEN <<>>
    ELSE LET ends == IF i + 1 <= Len(chars) /\ chars[i] = "\\" /\ chars[i + 1] = "*"
                     THEN {j \in (i + 2)..Len(chars) :
                              /\ chars[j] = ";"
                              /\ \A k \in (i + 2)..(j - 1) : chars[k] \notin {"\n", ";"}}
                     ELSE {}
         IN  IF ends # {}
             THEN RemoveStarred(chars, (CHOOSE j \in ends : TRUE) + 1)
             ELSE <<chars[i]>> \o RemoveStarred(chars, i + 1)

\* re.sub(r'\s+', ' ', text)
RECURSIVE CollapseWhitespace(_, _)
CollapseWhitespace(chars, i) ==
    IF i > Len(chars) THEN <<>>
    ELSE LET n == RunLength(chars, i, Whitespace)
         IN  IF n > 0 THEN <<" ">> \o CollapseWhitespace(chars, i + n)
             ELSE <<chars[i]>> \o CollapseWhitespace(chars, i + 1)

\* text.strip()
RECURSIVE Trim(_)
Trim(chars) ==
    IF chars = <<>> THEN chars
    ELSE IF chars[1] \in Whitespace THEN Trim(SubSeq(chars, 2, Len(chars)))
    ELSE IF chars[Len(chars)] \in Whitespace THEN Trim(SubSeq(chars, 1, Len(chars) - 1))
    ELSE chars

\* extract_text_from_rtf of rtf_handler.py (lines 22-49); re.sub raises nothing on a
\* str, so the except branch of lines 47-49 is not taken
extract_text_from_rtf(rtf_content) ==
    IF rtf_content = None \/ rtf_content = Str(<<>>) THEN Str(<<>>)
    ELSE LET text1 == RemoveControlWords(rtf_content.str, 1)
             text2 == RemoveBraces(text1)
             text3 == RemoveHexEscapes(text2, 1)
             text4 == ReplaceParagraphMarks(text3, 1)
             text5 == RemoveStarred(text4, 1)
             text6 == CollapseWhitespace(text5, 1)
         IN  Str(Trim(text6))

\* LatexExporter.extract_text_from_rtf (latex_export.py:100-115)
LatexExporter_extract_text_from_rtf(rtf_content) ==
    IF rtf_content = None \/ rtf_content = Str(<<>>) THEN Str(<<>>)
    ELSE LET text1 == RemoveControlWords(rtf_content.str, 1)
             text2 == RemoveBraces(text1)
             text3 == RemoveHexEscapes(text2, 1)
             text4 == RemoveStarred(text3, 1)
             text5 == ReplaceParagraphMarks(text4, 1)
             text6 == CollapseWhitespace(text5, 1)
         IN  Str(Trim(text6))

\* LatexExporter.is_rtf_content (latex_export.py:96-98)
is_rtf_content(content) ==
    /\ content # None
    /\ LET stripped == Trim(content.str)
       IN  /\ Len(stripped) >= 5
           /\ SubSeq(stripped, 1, 5) = <<"{", "\\", "r", "t", "f">>

\* the first position from i on where the characters text have the piece, or 0
Find(text, i, piece) ==
    LET at == {j \in i..Len(text) : text[j] = piece}
    IN  IF at = {} THEN 0 ELSE CHOOSE j \in at : \A k \in at : j <= k

\* str.strip() for the blank, on the characters
RECURSIVE StripChars(_)
StripChars(chars) ==
    IF chars = <<>> THEN chars
    ELSE IF chars[1] = " " THEN StripChars(SubSeq(chars, 2, Len(chars)))
    ELSE IF chars[Len(chars)] = " " THEN StripChars(SubSeq(chars, 1, Len(chars) - 1))
    ELSE chars

Strip(text) == Str(StripChars(text.str))

\* re.findall of the pattern from position i on (lines 134-135), each match made into
\* the dict of lines 139-143. The two groups are lazy and '.' matches no newline: a
\* match that opens at a takes the first " at " and then the first "]", and there is
\* one only if no newline comes before that "]"; otherwise the scan goes on behind a.
RECURSIVE FindSignatures(_, _)
FindSignatures(chars, i) ==
    LET a == Find(chars, i, MarkerOpen)
        b == IF a = 0 THEN 0 ELSE Find(chars, a + 1, MarkerAt)
        c == IF b = 0 THEN 0 ELSE Find(chars, b + 1, MarkerClose)
        newline == IF a = 0 THEN 0 ELSE Find(chars, a + 1, "\n")
    IN  IF a = 0 THEN <<>>
        ELSE IF c = 0 \/ (newline # 0 /\ newline < c)
        THEN FindSignatures(chars, a + 1)
        ELSE <<[username |-> Strip(Str(SubSeq(chars, a + 1, b - 1))),
                timestamp |-> Strip(Str(SubSeq(chars, b + 1, c - 1))),
                extracted |-> TRUE]>> \o FindSignatures(chars, c + 1)

\* extract_signatures (lines 129-145)
extract_signatures(content) == FindSignatures(content.str, 1)

\* process_content (lines 117-127)
process_content(content) ==
    IF content = None \/ content = Str(<<>>) THEN Str(<<"No content available.">>)
    ELSE IF is_rtf_content(content) THEN LatexExporter_extract_text_from_rtf(content)
    ELSE content

\* the concatenation of the sequences of a sequence
RECURSIVE Flatten(_)
Flatten(seqs) == IF seqs = <<>> THEN <<>> ELSE seqs[1] \o Flatten(SubSeq(seqs, 2, Len(seqs)))

IsText(f) == f.file_type = "text"
IsImage(f) == f.file_type = "image"
\* line 234: f.file_type == 'binary' and f.filename.lower().endswith('.pdf')
IsPdf(f) == f.file_type = "binary" /\ EndsWith(Lower(f.filename), <<".", "p", "d", "f">>)

\* shutil.copy2(file.file_path, ...) (lines 217, 245) raises when the source is not on
\* disk
CopyFails(f) == ~f.on_disk

\* lines 191-196
UpdatedDate(f) ==
    IF f.updated_at = Missing THEN [text |-> ""]
    ELSE IF f.updated_at = None THEN [text |-> "Date unknown"]
    ELSE [text |-> "Last Updated: ", strftime |-> f.updated_at.t]

\* one \section block of a text file (lines 172-203)
Section(f) ==
    [file |-> f.id,
     title |-> tex_escape(f.filename),
     updated_date |-> UpdatedDate(f),
     content |-> tex_escape(process_content(f.content))]

\* the signatures of a text file, each with the file's name (lines 183-187)
FileSignatures(f) ==
    LET found == extract_signatures(process_content(f.content))
    IN  [i \in 1..Len(found) |->
            [username |-> found[i].username, timestamp |-> found[i].timestamp,
             extracted |-> TRUE, filename |-> f.filename]]

\* the path under the Workspace an image or a PDF is staged at (lines 213-218, 240-246)
StagedPath(dir, f) == Str(<<dir>> \o safe_name(f.filename).str)

\* the files of a Workspace subdirectory after the copies of a loop (lines 217, 245),
\* path -> the row whose bytes the file holds: shutil.copy2 writes over a file that
\* is there
RECURSIVE CopyAll(_, _)
CopyAll(dir, rows) ==
    IF rows = <<>> THEN <<>>
    ELSE LET before == CopyAll(dir, SubSeq(rows, 1, Len(rows) - 1))
             f == rows[Len(rows)]
         IN  IF CopyFails(f) THEN before
             ELSE (Raw(StagedPath(dir, f)) :> f.id) @@ before

ImageOnException_propagates(f) == [raised |-> TRUE, blocks |-> <<>>]

\* except Exception of the image loop (lines 229-230): print, and go on to the next
\* file with no block added
ImageOnException(f) == [raised |-> FALSE, blocks |-> <<>>]

\* one image (lines 211-230): the copy, then the figure block
Figure(f) ==
    IF CopyFails(f) THEN ImageOnException(f)
    ELSE [raised |-> FALSE,
          blocks |-> <<[file |-> f.id,
                        path |-> Raw(Str(<<"images/">> \o safe_name(f.filename).str)),
                        caption |-> tex_escape(f.filename)]>>]

\* except Exception of the PDF loop (lines 254-255)
PdfOnException(f) == [raised |-> FALSE, blocks |-> <<>>]

\* one PDF, the i-th of pdf_files (lines 238-255): the copy, then the import block
Import(f, i) ==
    IF CopyFails(f) THEN PdfOnException(f)
    ELSE [raised |-> FALSE,
          blocks |-> <<[file |-> f.id,
                        title |-> tex_escape(f.filename),
                        label |-> i,
                        path |-> Raw(Str(<<"pdfs/">> \o safe_name(f.filename).str))]>>]

\* one entry of the Digital Signatures section (lines 272-286)
SignatureEntry(sig) ==
    [username |-> tex_escape(sig.username),
     timestamp |-> tex_escape(sig.timestamp),
     filename |-> tex_escape(sig.filename)]

\* generate_latex from line 158 on: whether an exception left it, and the markup it
\* returned, as the text put in each placeholder of the template (lines 311-318).
\* signature_manager is the DigitalSignature object of LatexExport.__init__.
generate_latex(project, files, tick) ==
    LET sorted == sorted_files(files, tick)
        texts == SelectSeq(sorted, IsText)
        images == SelectSeq(sorted, IsImage)
        pdf_files == SelectSeq(sorted, IsPdf)
        all_signatures == Flatten([i \in 1..Len(texts) |-> FileSignatures(texts[i])])
        figures == [i \in 1..Len(images) |-> Figure(images[i])]
        imports == [i \in 1..Len(pdf_files) |-> Import(pdf_files[i], i - 1)]
    IN
    IF \/ \E i \in 1..Len(figures) : figures[i].raised
       \/ \E i \in 1..Len(imports) : imports[i].raised
    THEN [raised |-> TRUE, markup |-> None, workspace |-> None]
    ELSE
    [raised |-> FALSE,
     workspace |-> [images |-> CopyAll("images/", images),
                    pdfs |-> CopyAll("pdfs/", pdf_files)],
     markup |->
       [title |-> tex_escape(project.name),
        abstract |-> tex_escape(IF project.description = None
                                   \/ project.description = Str(<<>>)
                                THEN Str(<<"No description provided.">>)
                                ELSE project.description),
        sections |-> [i \in 1..Len(texts) |-> Section(texts[i])],
        images |-> [header |-> images # <<>>,
                    figures |-> Flatten([i \in 1..Len(figures) |-> figures[i].blocks])],
        imported_pdfs |-> [header |-> pdf_files # <<>>,
                           imports |-> Flatten([i \in 1..Len(imports) |->
                                                   imports[i].blocks])],
        signatures |->
            IF all_signatures = <<>>
            THEN [header |-> FALSE, entries |-> <<>>, document |-> None]
            ELSE [header |-> TRUE,
                  entries |-> [i \in 1..Len(all_signatures) |->
                                   SignatureEntry(all_signatures[i])],
                  document |-> [generated_at |-> "utcnow",
                                file_count |-> Len(sorted),
                                signature_count |-> Len(all_signatures)]]]]

(***************************************************************************)
(* The projects and file lists generate_latex is applied to                *)
(***************************************************************************)
\* Project rows: name is not nullable, description is (models.py:16-17)
Projects ==
    {[name |-> Str(<<"P", "_", "&">>), description |-> None],
     [name |-> Str(<<"P">>), description |-> Str(<<"5", "%">>)]}

\* the values of updated_at: a stored datetime, NULL (models.py:34 sets no
\* nullable=False), or no such attribute
Times == {[t |-> n] : n \in StoredTimes} \cup {None, Missing}

\* the content of a text file: NULL, plain text, text with one marker, text with two
Contents ==
    {None,
     Str(<<"x", "#">>),
     Str(<<MarkerOpen, "b", "_", MarkerAt, "t", "1", MarkerClose>>),
     Str(<<MarkerOpen, " ", "a", MarkerAt, "t", "1", " ", MarkerClose, "~",
           MarkerOpen, "b", MarkerAt, "t", "2", MarkerClose>>)}

\* files that differ in kind and in updated_at
DatedFiles ==
    {[filename |-> Str(<<"n", ".", "t", "x", "t">>), file_type |-> "text",
      content |-> Str(<<"x">>), on_disk |-> TRUE, updated_at |-> u] : u \in Times}
    \cup
    {[filename |-> Str(<<"a", "_", "b", ".", "p", "n", "g">>), file_type |-> "image",
      content |-> None, on_disk |-> TRUE, updated_at |-> u] : u \in Times}
    \cup
    {[filename |-> Str(<<"d", ".", "p", "d", "f">>), file_type |-> "binary",
      content |-> None, on_disk |-> TRUE, updated_at |-> u] : u \in Times}

\* files that differ in kind, in name, in content and in whether file_path is on disk
NamedFiles ==
    {[filename |-> Str(<<"n", "&", ".", "t", "x", "t">>), file_type |-> "text",
      content |-> c, on_disk |-> TRUE, updated_at |-> [t |-> 1]] : c \in Contents}
    \cup
    {[filename |-> n, file_type |-> "image", content |-> None, on_disk |-> d,
      updated_at |-> [t |-> 1]] :
        n \in {Str(<<"a", "_", "b", ".", "p", "n", "g">>),
               Str(<<"a", "%", "b", ".", "p", "n", "g">>)},
        d \in BOOLEAN}
    \cup
    {[filename |-> n, file_type |-> "binary", content |-> None, on_disk |-> d,
      updated_at |-> [t |-> 1]] :
        n \in {Str(<<"d", "_", "1", ".", "P", "D", "F">>),
               Str(<<"d", ".", "d", "a", "t">>)},
        d \in BOOLEAN}

\* format_signature_for_display (digital_signature.py:205-212):
\* f"Signed by {username} at {timestamp} using {algorithm} [{signature[:16]}...]"
format_signature_for_display(signature_data) ==
    Str(<<"Signed by ", signature_data.username, MarkerAt, signature_data.timestamp,
          " using ", signature_data.algorithm, " [", "signature[:16]", "...",
          MarkerClose>>)

\* the content add_file_signature stores (routes (copy).py:113-129): the signature of
\* the session's user, formatted, put before or behind the content with an empty line
\* between
add_file_signature(content, username, position) ==
    LET signature == CreateSignature([private_key |-> None, public_key |-> None,
                                      constructed |-> TRUE],
                                     [SECRET_KEY |-> "you-will-never-guess"],
                                     username, "2024-01-01T00:00:00",
                                     [file_id |-> "a.txt", filename |-> "a.txt"], 1).ret
        formatted_signature == format_signature_for_display(signature)
    IN  IF position = "start"
        THEN Str(formatted_signature.str \o <<"\n", "\n">> \o content.str)
        ELSE Str(content.str \o <<"\n", "\n">> \o formatted_signature.str)

\* text files that were signed through add_file_signature
SignedFiles ==
    {[filename |-> Str(<<"n", ".", "t", "x", "t">>), file_type |-> "text",
      content |-> add_file_signature(c, u, p), on_disk |-> TRUE,
      updated_at |-> [t |-> 1]] :
        c \in {Str(<<"x", "#">>),
               Str(<<MarkerOpen, "b", "_", MarkerAt, "t", "1", MarkerClose>>)},
        u \in Usernames, p \in {"start", "end"}}

\* a list of rows, each row with its primary key
WithIds(list) == [i \in 1..Len(list) |-> [id |-> i] @@ list[i]]

\* the arguments of a generate_latex call that has not returned yet
ComposeInput(project, list, tick) ==
    [project |-> project, files |-> WithIds(list), tick |-> tick, returned |-> FALSE,
     raised |-> FALSE, markup |-> None, workspace |-> None]

\* generate_latex(project, files) is called and ends
Compose ==
    /\ composed # None
    /\ ~composed.returned /\ ~composed.raised
    /\ LET ended == generate_latex(composed.project, composed.files, composed.tick)
       IN  composed' = [composed EXCEPT !.returned = ~ended.raised,
                                        !.raised = ended.raised,
                                        !.markup = ended.markup,
                                        !.workspace = ended.workspace]

NextCompose == Compose /\ UNCHANGED <<exportVars, signVars, keyVars, rtfVars, routeVars>>

ComposeInit ==
    /\ InitExport
    /\ InitSign
    /\ InitKeys
    /\ InitRtf
    /\ InitRoutes
    /\ key_files = NoKeyFiles
    /\ config = [SECRET_KEY |-> "you-will-never-guess"]
    /\ \E n \in 0..MaxFiles :
          \/ \E list \in [1..n -> DatedFiles], tick \in BOOLEAN :
                composed = ComposeInput(CHOOSE p \in Projects : p.description = None,
                                        list, tick)
          \/ \E list \in [1..n -> NamedFiles], p \in Projects :
                composed = ComposeInput(p, list, TRUE)
          \/ \E list \in [1..n -> SignedFiles] :
                composed = ComposeInput(CHOOSE p \in Projects : p.description = None,
                                        list, TRUE)

SpecCompose == ComposeInit /\ [][NextCompose]_vars

\* the input row a block was made from
FileOf(block) == composed.files[block.file]

\* the row has a stored datetime in updated_at
Dated(f) == f.updated_at # None /\ f.updated_at # Missing

\* blocks made from dated rows come newest first, equal dates in input order
NewestFirst(blocks) ==
    \A p, q \in 1..Len(blocks) :
        (p < q /\ Dated(FileOf(blocks[p])) /\ Dated(FileOf(blocks[q]))) =>
            \/ FileOf(blocks[p]).updated_at.t > FileOf(blocks[q]).updated_at.t
            \/ /\ FileOf(blocks[p]).updated_at.t = FileOf(blocks[q]).updated_at.t
               /\ blocks[p].file < blocks[q].file

\* C17: in the markup generate_latex returns, the sections, the figures and the
\* imports each appear newest first by updated_at, rows with equal updated_at in
\* input order - also when some row of the list has no updated_at or a NULL one.
C17_NewestFirst ==
    (composed # None /\ composed.returned) =>
        /\ NewestFirst(composed.markup.sections)
        /\ NewestFirst(composed.markup.images.figures)
        /\ NewestFirst(composed.markup.imported_pdfs.imports)

Range(seq) == {seq[i] : i \in 1..Len(seq)}

\* no character of the text is one of the twelve, outside the replacements
NoSourceChars(text) ==
    \A i \in 1..Len(text) : "char" \in DOMAIN text[i] => text[i].char \notin SourceChars

\* text is what the escape table makes of source, and is free of the twelve
Escaped(source, text) == text = tex_escape(source) /\ NoSourceChars(text)

\* the signatures of the text files, in the order of their sections
SectionSignatures ==
    Flatten([i \in 1..Len(composed.markup.sections) |->
                FileSignatures(FileOf(composed.markup.sections[i]))])

\* project name, description, filenames, text content, signer names and timestamps
TextsEscaped ==
    LET m == composed.markup IN
    /\ Escaped(composed.project.name, m.title)
    /\ NoSourceChars(m.abstract)
    /\ composed.project.description # None
          => m.abstract = tex_escape(composed.project.description)
    /\ \A i \in 1..Len(m.sections) :
          /\ Escaped(FileOf(m.sections[i]).filename, m.sections[i].title)
          /\ Escaped(process_content(FileOf(m.sections[i]).content),
                     m.sections[i].content)
    /\ \A i \in 1..Len(m.images.figures) :
          Escaped(FileOf(m.images.figures[i]).filename, m.images.figures[i].caption)
    /\ \A i \in 1..Len(m.imported_pdfs.imports) :
          Escaped(FileOf(m.imported_pdfs.imports[i]).filename,
                  m.imported_pdfs.imports[i].title)
    /\ Len(m.signatures.entries) = Len(SectionSignatures)
    /\ \A i \in 1..Len(m.signatures.entries) :
          /\ Escaped(SectionSignatures[i].username, m.signatures.entries[i].username)
          /\ Escaped(SectionSignatures[i].timestamp, m.signatures.entries[i].timestamp)
          /\ Escaped(SectionSignatures[i].filename, m.signatures.entries[i].filename)

\* the staged file paths went through the escape table
PathsEscaped ==
    LET m == composed.markup IN
    /\ \A i \in 1..Len(m.images.figures) :
          Escaped(StagedPath("images/", FileOf(m.images.figures[i])),
                  m.images.figures[i].path)
    /\ \A i \in 1..Len(m.imported_pdfs.imports) :
          Escaped(StagedPath("pdfs/", FileOf(m.imported_pdfs.imports[i])),
                  m.imported_pdfs.imports[i].path)

\* text is source as it stands, and of the twelve it has the underscore at most
Sanitized(source, text) ==
    /\ text = Raw(source)
    /\ \A i \in 1..Len(text) : text[i].char \notin SourceChars \ {"_"}

\* the staged file paths are put in as they are, sanitized by safe_name
PathsSanitized ==
    LET m == composed.markup IN
    /\ \A i \in 1..Len(m.images.figures) :
          Sanitized(StagedPath("images/", FileOf(m.images.figures[i])),
                    m.images.figures[i].path)
    /\ \A i \in 1..Len(m.imported_pdfs.imports) :
          Sanitized(StagedPath("pdfs/", FileOf(m.imported_pdfs.imports[i])),
                    m.imported_pdfs.imports[i].path)

\* C18 as stated: every string of the markup that comes from the project or a file -
\* project name, description, filenames, text content, staged file paths, signer
\* names and timestamps - is the escape table's output for it and has none of the
\* twelve characters outside a replacement.
C18_AllEscaped ==
    (composed # None /\ composed.returned) => (TextsEscaped /\ PathsEscaped)

\* C18 amended: project name, description, filenames, text content, signer names and
\* timestamps are the escape table's output and have none of the twelve characters
\* outside a replacement; a staged file path is put in unescaped, with every
\* character outside [a-zA-Z0-9_.-] made an underscore, so that of the twelve it can
\* have the underscore only.
C18_EscapedExceptStagedPaths ==
    (composed # None /\ composed.returned) => (TextsEscaped /\ PathsSanitized)

\* a figure whose caption has the replacement of an underscore and whose staged path
\* has the underscore itself, in a document with a signer name that was escaped
C18_Witness ==
    /\ composed # None /\ composed.returned
    /\ \E i \in 1..Len(composed.markup.images.figures) :
          /\ [repl |-> "\\_"] \in Range(composed.markup.images.figures[i].caption)
          /\ [char |-> "_"] \in Range(composed.markup.images.figures[i].path)
    /\ \E i \in 1..Len(composed.markup.signatures.entries) :
          [repl |-> "\\_"] \in Range(composed.markup.signatures.entries[i].username)

\* the markers in the content of the text files: <<row, position>>
Markers ==
    UNION {{<<i, j>> : j \in {k \in 1..Len(process_content(composed.files[i].content).str) :
                                process_content(composed.files[i].content).str[k]
                                    = MarkerOpen}} :
              i \in {n \in 1..Len(composed.files) : IsText(composed.files[n])}}

\* C19: the markup generate_latex returns always has the Digital Signatures section,
\* with one entry per marker of the text files (none included) and with a
\* document-level block that carries a signature made by create_signature.
C19_SignaturesSectionAlways ==
    (composed # None /\ composed.returned) =>
        /\ composed.markup.signatures.header
        /\ Len(composed.markup.signatures.entries) = Cardinality(Markers)
        /\ composed.markup.signatures.document # None
        /\ "signature" \in DOMAIN composed.markup.signatures.document

\* row f has a block among blocks
HasBlock(blocks, f) == \E i \in 1..Len(blocks) : blocks[i].file = f.id

\* C20: generate_latex returns markup whether or not a copy failed; an image or PDF
\* whose copy failed has no block, and every other text file, image and PDF has its
\* block.
C20_CopyFailureSkipsOneBlock ==
    (composed # None /\ (composed.returned \/ composed.raised)) =>
        /\ ~composed.raised
        /\ \A i \in 1..Len(composed.files) :
              LET f == composed.files[i] IN
              /\ IsText(f) => HasBlock(composed.markup.sections, f)
              /\ IsImage(f) => (HasBlock(composed.markup.images.figures, f) <=> f.on_disk)
              /\ IsPdf(f) =>
                    (HasBlock(composed.markup.imported_pdfs.imports, f) <=> f.on_disk)

\* an image whose copy failed, next to an image, a PDF and a text file that have
\* their blocks
C20_Witness ==
    /\ composed # None /\ composed.returned
    /\ \E i, j \in 1..Len(composed.files) :
          /\ IsImage(composed.files[i]) /\ ~composed.files[i].on_disk
          /\ ~HasBlock(composed.markup.images.figures, composed.files[i])
          /\ IsPdf(composed.files[j]) /\ composed.files[j].on_disk
          /\ HasBlock(composed.markup.imported_pdfs.imports, composed.files[j])
    /\ Len(composed.markup.sections) + Len(composed.markup.images.figures) >= 1

(***************************************************************************)
(* The order of the steps of generate_pdf (latex_export.py:323-378)        *)
(***************************************************************************)
\* generate_pdf was called and has returned
Rendered(c) == RenderReturned(c) /\ temp_dir[c] # None

\* no pass of the call ended in subprocess.TimeoutExpired
NoTimeout(c) == \A i \in 1..Len(runs[c]) : runs[c][i] # "timeout"

\* neither open(tex_file, 'w') nor the launch of pdflatex raised
NoIOError(c) ==
    /\ \A i \in 1..Len(runs[c]) : runs[c][i] # "oserror"
    /\ result[c] # Failure("cannot write output.tex")

\* output.tex is there when the compiler has been invoked; output.pdf is looked for
\* after the last pass only; Success comes after output.pdf was found and read
StepsInOrder(c) ==
    /\ (Len(runs[c]) >= 1 /\ Exists(temp_dir[c])) => "output.tex" \in fs[temp_dir[c]]
    /\ pdf_checked[c] => Len(runs[c]) = Passes
    /\ pdf_read[c] => pdf_checked[c]
    /\ (Rendered(c) /\ IsSuccess(result[c])) => (pdf_checked[c] /\ pdf_read[c])

\* C25 as stated: output.tex is written before the first compiler invocation; every
\* generate_pdf call without a timeout invokes the compiler exactly twice; output.pdf
\* is looked for after both passes only; Success is returned only after output.pdf was
\* found and read.
C25_LinearPath ==
    \A c \in Calls :
        /\ StepsInOrder(c)
        /\ (Rendered(c) /\ NoTimeout(c)) => Len(runs[c]) = 2

\* C25 amended: as stated, but the compiler is invoked exactly twice in every
\* generate_pdf call in which no pass timed out and neither the writing of output.tex
\* nor the launching of the compiler raised; a call in which one of these raised
\* returns Failure after fewer than two invocations.
C25_LinearPathUnlessIOError ==
    \A c \in Calls :
        /\ StepsInOrder(c)
        /\ (Rendered(c) /\ NoTimeout(c) /\ NoIOError(c)) => Len(runs[c]) = 2
        /\ (Rendered(c) /\ ~NoIOError(c)) => (Len(runs[c]) < 2 \/ runs[c][2] = "oserror")

\* a call whose first pass exited non-zero, whose second pass ran and exited zero, and
\* which returned Success after reading output.pdf
C25_Witness ==
    \E c \in Calls :
        /\ Rendered(c)
        /\ runs[c] = <<"exit1", "exit0">>
        /\ pdf_checked[c] /\ pdf_read[c]
        /\ IsSuccess(result[c])

\* no DigitalSignature() call is in progress
NoConstructionInProgress ==
    \A k \in Constructors : constructor[k].pc \in {"idle", "done", "raised"}

\* C27: once the DigitalSignature() calls that overlapped have all ended, none of them
\* having hit an error, the private key file and the public key file hold the two
\* halves of one key pair.
C27_KeyFilesOfOnePair ==
    (/\ NoConstructionInProgress
     /\ \A k \in Constructors : constructor[k].failed = "none"
     /\ key_files.private # None
     /\ key_files.public # None)
        => key_files.private.pair = key_files.public.pair

\* the staged file a block refers to holds the bytes of the block's own row
OwnBytes(staged, blocks) ==
    \A i \in 1..Len(blocks) :
        /\ blocks[i].path \in DOMAIN staged
        /\ staged[blocks[i].path] = blocks[i].file

\* no two blocks refer to one path
DistinctPaths(blocks) ==
    \A i, j \in 1..Len(blocks) : i # j => blocks[i].path # blocks[j].path

\* C29: in the markup of one generate_latex call no two figure blocks, and no two
\* import blocks, refer to the same staged path, and the staged file of each block
\* holds the bytes of the block's own file - whatever the filenames.
C29_StagedPathsDistinct ==
    (composed # None /\ composed.returned) =>
        /\ DistinctPaths(composed.markup.images.figures)
        /\ DistinctPaths(composed.markup.imported_pdfs.imports)
        /\ OwnBytes(composed.workspace.images, composed.markup.images.figures)
        /\ OwnBytes(composed.workspace.pdfs, composed.markup.imported_pdfs.imports)

\* the signature lines add_file_signature put into the content of row f: the
\* positions of their first piece
DisplayLines(f) ==
    {j \in 1..Len(process_content(f.content).str) :
        process_content(f.content).str[j] = "Signed by "}

\* C30: every signature line that add_file_signature put into a text file has an
\* entry in the Digital Signatures section of the markup, with the line's signer and
\* timestamp and the file's name.
C30_DisplayLineRecognized ==
    (composed # None /\ composed.returned) =>
        \A i \in 1..Len(composed.files) :
            IsText(composed.files[i]) =>
                \A j \in DisplayLines(composed.files[i]) :
                    LET chars == process_content(composed.files[i].content).str IN
                    \E e \in Range(composed.markup.signatures.entries) :
                        /\ e.username = tex_escape(Str(<<chars[j + 1]>>))
                        /\ e.timestamp = tex_escape(Str(<<chars[j + 3]>>))
                        /\ e.filename = tex_escape(composed.files[i].filename)

(***************************************************************************)
(* The two extract_text_from_rtf applied to a content, and to their own    *)
(* results.                                                                *)
(***************************************************************************)

\* the pieces the contents are put together from: the control symbols \* and \{, a
\* control word, the paragraph mark, a hex escape, the RTF header, and plain characters
Fragments ==
    {<<"\\", "*">>, <<"\\", "{">>, <<"\\", "b">>, <<"\\", "p", "a", "r">>,
     <<"\\", "'", "e", "9">>, <<"{", "\\", "r", "t", "f", "1">>, <<"}">>,
     <<"p", "a", "r">>, <<";">>, <<" ">>, <<"\n">>, <<"X">>}

\* a content, not yet handed to either function
RtfInput(content) ==
    [content |-> content, plain_text |-> None, plain_again |-> None,
     exported |-> None, exported_again |-> None]

\* rtf_handler.extract_text_from_rtf on the content
HandlerExtract ==
    /\ rtf # None
    /\ rtf.plain_text = None
    /\ rtf' = [rtf EXCEPT !.plain_text = extract_text_from_rtf(rtf.content)]

\* rtf_handler.extract_text_from_rtf on its own result
HandlerExtractAgain ==
    /\ rtf # None
    /\ rtf.plain_text # None
    /\ rtf.plain_again = None
    /\ rtf' = [rtf EXCEPT !.plain_again = extract_text_from_rtf(rtf.plain_text)]

\* LatexExporter.extract_text_from_rtf on the content
ExporterExtract ==
    /\ rtf # None
    /\ rtf.exported = None
    /\ rtf' = [rtf EXCEPT !.exported = LatexExporter_extract_text_from_rtf(rtf.content)]

\* LatexExporter.extract_text_from_rtf on its own result
ExporterExtractAgain ==
    /\ rtf # None
    /\ rtf.exported # None
    /\ rtf.exported_again = None
    /\ rtf' = [rtf EXCEPT !.exported_again =
                              LatexExporter_extract_text_from_rtf(rtf.exported)]

NextRtf ==
    \/ HandlerExtract /\ UNCHANGED <<exportVars, signVars, keyVars, composeVars, routeVars>>
    \/ HandlerExtractAgain /\ UNCHANGED <<exportVars, signVars, keyVars, composeVars, routeVars>>
    \/ ExporterExtract /\ UNCHANGED <<exportVars, signVars, keyVars, composeVars, routeVars>>
    \/ ExporterExtractAgain /\ UNCHANGED <<exportVars, signVars, keyVars, composeVars, routeVars>>

\* the content is None or a text of at most MaxFragments fragments
RtfInit ==
    /\ InitExport
    /\ InitSign
    /\ InitKeys
    /\ InitCompose
    /\ key_files = NoKeyFiles
    /\ config = [SECRET_KEY |-> "you-will-never-guess"]
    /\ InitRoutes
    /\ \/ rtf = RtfInput(None)
       \/ \E n \in 0..MaxFragments : \E list \in [1..n -> Fragments] :
             rtf = RtfInput(Str(Flatten(list)))

SpecRtf == RtfInit /\ [][NextRtf]_vars

\* C21: extracting the plain text of an extracted plain text changes nothing, for
\* either extract_text_from_rtf.
C21_ExtractIdempotent ==
    rtf # None =>
        /\ rtf.plain_again # None => rtf.plain_again = rtf.plain_text
        /\ rtf.exported_again # None => rtf.exported_again = rtf.exported

\* C26: the extract_text_from_rtf of rtf_handler.py and the one of latex_export.py
\* return the same text for every content.
C26_SameResult ==
    (rtf # None /\ rtf.plain_text # None /\ rtf.exported # None) =>
        rtf.plain_text = rtf.exported

(***************************************************************************)
(* The routes of routes.py: the blueprint that begins at line 90. A        *)
(* handler is one step, but for update_file, which is taken statement by   *)
(* statement where it reads and writes the FileVersion table. The calls to *)
(* Neo4j and Ollama that follow a commit are inside try blocks that only   *)
(* print, and they change no row.                                          *)
(***************************************************************************)

\* flask.session: empty before login, user_id and username after it (lines 155-169)
Sessions == {EmptyDict, [user_id |-> 1, username |-> "alice"]}

ContentA == Str(<<"a">>)

ContentB == Str(<<"b">>)

\* dict.get(key, default)
Get(dict, key, default) == IF key \in DOMAIN dict THEN dict[key] ELSE default

Max(numbers) == CHOOSE n \in numbers : \A m \in numbers : m <= n

LoggedIn_always(session) == TRUE

\* 'user_id' in session, the condition every protected handler begins with
LoggedIn(session) == "user_id" \in DOMAIN session

\* return jsonify(json), status
Response(status, json) == [status |-> status, json |-> json]

JsonError(message) == [success |-> FALSE, message |-> message]

NotLoggedIn_forbidden == Response(403, JsonError("Not logged in"))

\* return jsonify({'success': False, 'message': 'Not logged in'}), 401
NotLoggedIn == Response(401, JsonError("Not logged in"))

\* an exception left the view: Flask answers 500 with an HTML page, no JSON
InternalServerError == Response(500, None)

\* a handled request, as it stays in its slot
Finished(route, session, data, response) ==
    [Idle EXCEPT !.pc = "done", !.route = route, !.session = session, !.data = data,
                 !.response = response]

\* slot s takes a request and answers it at once
Answer(s, route, session, data, response) ==
    /\ request' = [request EXCEPT ![s] = Finished(route, session, data, response)]
    /\ handled' = handled + 1

\* slot s handles no request
Free(s) == request[s].pc \in {"idle", "done"}

\* Project.query.filter_by(id=project_id, user_id=user_id)
OwnProject(session, project_id) ==
    {p \in db.projects : p.id = project_id /\ p.user_id = session.user_id}

\* File.query.join(Project).filter(File.id == file_id, Project.user_id == user_id)
OwnFile(session, file_id) ==
    {f \in db.files : /\ f.id = file_id
                      /\ \E p \in db.projects :
                            p.id = f.project_id /\ p.user_id = session.user_id}

\* the primary key of a row inserted in the table
NextId(rows) == IF rows = {} THEN 1 ELSE Max({r.id : r \in rows}) + 1

\* the rows left when the files are deleted: the versions go with their file
\* (models.py:37, cascade='all, delete-orphan')
WithoutFiles(ids) ==
    [db EXCEPT !.files = {f \in @ : f.id \notin ids},
               !.versions = {v \in @ : v.file_id \notin ids}]

\* get_projects (lines 192-211)
GetProjects(s, session) ==
    /\ Free(s)
    /\ Answer(s, "get_projects", session, EmptyDict,
              IF ~LoggedIn(session) THEN NotLoggedIn
              ELSE Response(200, [success |-> TRUE,
                                  projects |-> {p.id : p \in {q \in db.projects :
                                                    q.user_id = session.user_id}}]))
    /\ UNCHANGED db

\* create_project (lines 213-248): data['name'] raises KeyError when the body has no
\* name
CreateProject(s, session, data) ==
    /\ Free(s)
    /\ IF ~LoggedIn(session)
       THEN Answer(s, "create_project", session, data, NotLoggedIn) /\ UNCHANGED db
       ELSE IF "name" \notin DOMAIN data
       THEN Answer(s, "create_project", session, data, InternalServerError)
            /\ UNCHANGED db
       ELSE LET project == [id |-> NextId(db.projects), user_id |-> session.user_id,
                            name |-> data.name, github_repo |-> None]
            IN  /\ db' = [db EXCEPT !.projects = @ \cup {project}]
                /\ Answer(s, "create_project", session, data,
                          Response(200, [success |-> TRUE, project |-> project.id]))

\* get_project (lines 250-283)
GetProject(s, session, project_id) ==
    /\ Free(s)
    /\ Answer(s, "get_project", session, EmptyDict,
              IF ~LoggedIn(session) THEN NotLoggedIn
              ELSE IF OwnProject(session, project_id) = {}
              THEN Response(404, JsonError("Project not found"))
              ELSE Response(200, [success |-> TRUE, project |-> project_id]))
    /\ UNCHANGED db

\* update_project (lines 285-314)
UpdateProject(s, session, project_id, data) ==
    /\ Free(s)
    /\ IF ~LoggedIn(session)
       THEN Answer(s, "update_project", session, data, NotLoggedIn) /\ UNCHANGED db
       ELSE IF OwnProject(session, project_id) = {}
       THEN Answer(s, "update_project", session, data,
                   Response(404, JsonError("Project not found")))
            /\ UNCHANGED db
       ELSE /\ db' = [db EXCEPT !.projects =
                         {IF p.id = project_id
                          THEN [p EXCEPT !.name = Get(data, "name", p.name)]
                          ELSE p : p \in @}]
            /\ Answer(s, "update_project", session, data,
                      Response(200, [success |-> TRUE, project |-> project_id]))

\* delete_project (lines 316-340): the files go with the project (models.py:21)
DeleteProject(s, session, project_id) ==
    /\ Free(s)
    /\ IF ~LoggedIn(session)
       THEN Answer(s, "delete_project", session, EmptyDict, NotLoggedIn) /\ UNCHANGED db
       ELSE IF OwnProject(session, project_id) = {}
       THEN Answer(s, "delete_project", session, EmptyDict,
                   Response(404, JsonError("Project not found")))
            /\ UNCHANGED db
       ELSE /\ db' = [WithoutFiles({f.id : f \in {g \in db.files :
                                                   g.project_id = project_id}})
                         EXCEPT !.projects = {p \in @ : p.id # project_id}]
            /\ Answer(s, "delete_project", session, EmptyDict,
                      Response(200, [success |-> TRUE]))

\* get_files (lines 343-365)
GetFiles(s, session, project_id) ==
    /\ Free(s)
    /\ Answer(s, "get_files", session, EmptyDict,
              IF ~LoggedIn(session) THEN NotLoggedIn
              ELSE IF OwnProject(session, project_id) = {}
              THEN Response(404, JsonError("Project not found"))
              ELSE Response(200, [success |-> TRUE,
                                  files |-> {f.id : f \in {g \in db.files :
                                                g.project_id = project_id}}]))
    /\ UNCHANGED db

\* the file_type and content create_file gives an upload (lines 447-459); readable
\* says whether open(file_path, 'r').read() succeeds
Uploaded(filename, readable) ==
    IF filename = "x.png" THEN [file_type |-> "image", content |-> None]
    ELSE IF filename = "x.txt" /\ readable THEN [file_type |-> "text", content |-> ContentA]
    ELSE [file_type |-> "binary", content |-> None]

\* the File row and its FileVersion row number 1 (lines 384-393 and 412-421, 461-469
\* and 500-509)
WithNewFile(project_id, filename, file_type, content) ==
    LET file == [id |-> NextId(db.files), project_id |-> project_id,
                 filename |-> filename, file_type |-> file_type, content |-> content]
        version == [id |-> NextId(db.versions), file_id |-> file.id, version_number |-> 1,
                    content |-> content, commit_message |-> "Initial version"]
    IN  [db EXCEPT !.files = @ \cup {file}, !.versions = @ \cup {version}]

\* create_file (lines 367-523): form holds request.form and request.files
CreateFile(s, session, project_id, form, readable) ==
    /\ Free(s)
    /\ IF ~LoggedIn(session)
       THEN Answer(s, "create_file", session, form, NotLoggedIn) /\ UNCHANGED db
       ELSE IF OwnProject(session, project_id) = {}
       THEN Answer(s, "create_file", session, form,
                   Response(404, JsonError("Project not found")))
            /\ UNCHANGED db
       ELSE IF "content" \in DOMAIN form
       THEN /\ db' = WithNewFile(project_id, Get(form, "filename", "untitled.txt"),
                                 "text", form.content)
            /\ Answer(s, "create_file", session, form,
                      Response(200, [success |-> TRUE, file |-> NextId(db.files)]))
       ELSE IF "file" \in DOMAIN form
       THEN IF form.file = ""
            THEN Answer(s, "create_file", session, form,
                        Response(400, JsonError("No file selected")))
                 /\ UNCHANGED db
            ELSE /\ db' = WithNewFile(project_id, form.file,
                                      Uploaded(form.file, readable).file_type,
                                      Uploaded(form.file, readable).content)
                 /\ Answer(s, "create_file", session, form,
                           Response(200, [success |-> TRUE, file |-> NextId(db.files)]))
       ELSE Answer(s, "create_file", session, form,
                   Response(400, JsonError("No file or content provided")))
            /\ UNCHANGED db

\* get_file (lines 525-573)
GetFile(s, session, file_id) ==
    /\ Free(s)
    /\ Answer(s, "get_file", session, EmptyDict,
              IF ~LoggedIn(session) THEN NotLoggedIn
              ELSE IF OwnFile(session, file_id) = {}
              THEN Response(404, JsonError("File not found"))
              ELSE Response(200, [success |-> TRUE, file |-> file_id,
                                  versions |-> {v.version_number : v \in
                                      {w \in db.versions : w.file_id = file_id}}]))
    /\ UNCHANGED db

\* get_file_content (lines 575-591): send_file answers with the bytes or raises
GetFileContent(s, session, file_id, sent) ==
    /\ Free(s)
    /\ Answer(s, "get_file_content", session, EmptyDict,
              IF ~LoggedIn(session) THEN NotLoggedIn
              ELSE IF OwnFile(session, file_id) = {}
              THEN Response(404, JsonError("File not found"))
              ELSE IF sent THEN Response(200, None)
              ELSE Response(500, JsonError("str(e)")))
    /\ UNCHANGED db

\* get_file_version (lines 687-712)
GetFileVersion(s, session, file_id, version_id) ==
    /\ Free(s)
    /\ Answer(s, "get_file_version", session, EmptyDict,
              IF ~LoggedIn(session) THEN NotLoggedIn
              ELSE IF OwnFile(session, file_id) = {}
              THEN Response(404, JsonError("File not found"))
              ELSE IF {v \in db.versions : v.id = version_id /\ v.file_id = file_id} = {}
              THEN Response(404, JsonError("Version not found"))
              ELSE Response(200, [success |-> TRUE, version |-> version_id]))
    /\ UNCHANGED db

\* the transaction reads from the snapshot its first SELECT made: InnoDB's default
\* REPEATABLE READ. With SQLite, the default of config.py:6, each SELECT sees what
\* is committed.
SnapshotReads == db.engine = "mysql"

version_number_first(numbers) == 1

\* lines 619-621: one more than the number of the last version, 1 without one
version_number(numbers) == IF numbers = {} THEN 1 ELSE Max(numbers) + 1

\* update_file up to the second query (lines 593-616): the file is loaded by the
\* first SELECT of the request's transaction
UpdateFileBegin(s, session, file_id, data) ==
    /\ Free(s)
    /\ UNCHANGED db
    /\ IF ~LoggedIn(session)
       THEN Answer(s, "update_file", session, data, NotLoggedIn)
       ELSE IF OwnFile(session, file_id) = {}
       THEN Answer(s, "update_file", session, data,
                   Response(404, JsonError("File not found")))
       ELSE LET file == CHOOSE f \in OwnFile(session, file_id) : TRUE IN
            IF file.file_type # "text"
            THEN Answer(s, "update_file", session, data,
                        Response(400, JsonError("Only text files can be updated")))
            ELSE /\ request' = [request EXCEPT ![s] =
                                   [Idle EXCEPT !.pc = "query", !.route = "update_file",
                                                !.session = session, !.data = data,
                                                !.file_id = file_id,
                                                !.content = Get(data, "content",
                                                                file.content),
                                                !.snapshot = IF SnapshotReads
                                                             THEN db.versions ELSE {}]]
                 /\ handled' = handled + 1

\* another request's transaction has written the file row and not committed
LockedByOther(s) ==
    \E l \in db.locks : l.file_id = request[s].file_id /\ l.slot # s

\* line 618: the query flushes the changed file row first (UPDATE file ..., which
\* waits while another transaction holds the row), then reads the last version
UpdateFileQuery(s) ==
    /\ request[s].pc = "query"
    /\ ~LockedByOther(s)
    /\ LET visible == IF SnapshotReads THEN request[s].snapshot ELSE db.versions
           numbers == {v.version_number : v \in
                          {w \in visible : w.file_id = request[s].file_id}}
       IN  request' = [request EXCEPT ![s].pc = "commit",
                                      ![s].version_number = version_number(numbers)]
    /\ db' = [db EXCEPT !.locks = @ \cup {[file_id |-> request[s].file_id, slot |-> s]}]
    /\ UNCHANGED handled

\* line 618 when the wait for the row ends with a timeout: the OperationalError
\* leaves the view and the transaction is rolled back
UpdateFileTimeout(s) ==
    /\ request[s].pc = "query"
    /\ LockedByOther(s)
    /\ request' = [request EXCEPT ![s] =
                      Finished("update_file", request[s].session, request[s].data,
                               InternalServerError)]
    /\ UNCHANGED <<db, handled>>

\* lines 623-661: the version is inserted and the transaction committed
UpdateFileCommit(s) ==
    /\ request[s].pc = "commit"
    /\ LET r == request[s]
           version == [id |-> NextId(db.versions), file_id |-> r.file_id,
                       version_number |-> r.version_number, content |-> r.content,
                       commit_message |-> Get(r.data, "commit_message", "Updated file")]
       IN  /\ db' = [db EXCEPT
                        !.versions = @ \cup {version},
                        !.files = {IF f.id = r.file_id
                                   THEN [f EXCEPT !.content = Get(r.data, "content", @)]
                                   ELSE f : f \in @},
                        !.locks = {l \in @ : l.slot # s}]
           /\ request' = [request EXCEPT ![s] =
                             Finished("update_file", r.session, r.data,
                                      Response(200, [success |-> TRUE,
                                                     file |-> [id |-> r.file_id,
                                                               content |-> r.content,
                                                               version |-> r.version_number]]))]
    /\ UNCHANGED handled

\* delete_file (lines 663-685)
DeleteFile(s, session, file_id) ==
    /\ Free(s)
    /\ IF ~LoggedIn(session)
       THEN Answer(s, "delete_file", session, EmptyDict, NotLoggedIn) /\ UNCHANGED db
       ELSE IF OwnFile(session, file_id) = {}
       THEN Answer(s, "delete_file", session, EmptyDict,
                   Response(404, JsonError("File not found")))
            /\ UNCHANGED db
       ELSE /\ db' = WithoutFiles({file_id})
            /\ Answer(s, "delete_file", session, EmptyDict,
                      Response(200, [success |-> TRUE]))

\* enhance_image (lines 715-784): success is what the enhancement returned
EnhanceImage(s, session, file_id, data, success) ==
    /\ Free(s)
    /\ IF ~LoggedIn(session)
       THEN Answer(s, "enhance_image", session, data, NotLoggedIn) /\ UNCHANGED db
       ELSE IF OwnFile(session, file_id) = {}
       THEN Answer(s, "enhance_image", session, data,
                   Response(404, JsonError("File not found")))
            /\ UNCHANGED db
       ELSE LET file == CHOOSE f \in OwnFile(session, file_id) : TRUE IN
            IF file.file_type # "image"
            THEN Answer(s, "enhance_image", session, data,
                        Response(400, JsonError("File is not an image")))
                 /\ UNCHANGED db
            ELSE IF Get(data, "type", "stable_diffusion") \notin
                        {"stable_diffusion", "ollama"}
            THEN Answer(s, "enhance_image", session, data,
                        Response(400, JsonError("Invalid enhancement type")))
                 /\ UNCHANGED db
            ELSE IF ~success
            THEN Answer(s, "enhance_image", session, data,
                        Response(500, JsonError("Failed to enhance image")))
                 /\ UNCHANGED db
            ELSE /\ db' = [db EXCEPT !.files = @ \cup
                              {[id |-> NextId(db.files), project_id |-> file.project_id,
                                filename |-> "x_enhanced.png", file_type |-> "image",
                                content |-> None]}]
                 /\ Answer(s, "enhance_image", session, data,
                           Response(200, [success |-> TRUE, file |-> NextId(db.files)]))

\* publish_to_github (lines 786-818): success is what publish_project_to_github
\* returned
PublishToGithub(s, session, project_id, success) ==
    /\ Free(s)
    /\ IF ~LoggedIn(session)
       THEN Answer(s, "publish_to_github", session, EmptyDict, NotLoggedIn)
            /\ UNCHANGED db
       ELSE IF OwnProject(session, project_id) = {}
       THEN Answer(s, "publish_to_github", session, EmptyDict,
                   Response(404, JsonError("Project not found")))
            /\ UNCHANGED db
       ELSE IF ~success
       THEN Answer(s, "publish_to_github", session, EmptyDict,
                   Response(500, JsonError("Failed to publish to GitHub")))
            /\ UNCHANGED db
       ELSE /\ db' = [db EXCEPT !.projects =
                         {IF p.id = project_id
                          THEN [p EXCEPT !.github_repo = Str(<<"o/r">>)]
                          ELSE p : p \in @}]
            /\ Answer(s, "publish_to_github", session, EmptyDict,
                      Response(200, [success |-> TRUE, github |-> "o/r"]))

\* import_from_github (lines 820-864) with import_project_from_github
\* (github_integration.py:304-450): a project and a File row for each file of the
\* clone, none with a version
ImportFromGithub(s, session, data, ssh, cloned, repo_files) ==
    /\ Free(s)
    /\ IF ~LoggedIn(session)
       THEN Answer(s, "import_from_github", session, data, NotLoggedIn) /\ UNCHANGED db
       ELSE IF "repo_url" \notin DOMAIN data
       THEN Answer(s, "import_from_github", session, data,
                   Response(400, JsonError("Repository URL or name is required")))
            /\ UNCHANGED db
       ELSE IF ~ssh
       THEN Answer(s, "import_from_github", session, data,
                   Response(400, JsonError(
                       "GitHub SSH authentication is not set up correctly.")))
            /\ UNCHANGED db
       ELSE IF ~cloned
       THEN Answer(s, "import_from_github", session, data,
                   Response(500, JsonError("Failed to import from GitHub")))
            /\ UNCHANGED db
       ELSE LET project == [id |-> NextId(db.projects), user_id |-> session.user_id,
                            name |-> Str(<<"r">>), github_repo |-> Str(<<"o/r">>)]
                files == IF repo_files = 0 THEN {}
                         ELSE {[id |-> NextId(db.files), project_id |-> project.id,
                                filename |-> "README.md", file_type |-> "text",
                                content |-> ContentA]}
            IN  /\ db' = [db EXCEPT !.projects = @ \cup {project},
                                    !.files = @ \cup files]
                /\ Answer(s, "import_from_github", session, data,
                          Response(200, [success |-> TRUE, project |-> project.id]))

\* export_to_pdf (lines 866-899): success is what export_project_to_pdf returned
ExportToPdf(s, session, project_id, success) ==
    /\ Free(s)
    /\ Answer(s, "export_to_pdf", session, EmptyDict,
              IF ~LoggedIn(session) THEN NotLoggedIn
              ELSE IF OwnProject(session, project_id) = {}
              THEN Response(404, JsonError("Project not found"))
              ELSE IF ~success THEN Response(500, JsonError("Failed to export to PDF"))
              ELSE Response(200, None))
    /\ UNCHANGED db

\* search (lines 901-972): args holds request.args, success what search_projects
\* returned
Search(s, session, args, success) ==
    /\ Free(s)
    /\ Answer(s, "search", session, args,
              IF ~LoggedIn(session) THEN NotLoggedIn
              ELSE IF Get(args, "q", "") = ""
              THEN Response(400, JsonError("Query is required"))
              ELSE IF ~success THEN Response(500, JsonError("Search failed"))
              ELSE Response(200, [success |-> TRUE, results |-> "results"]))
    /\ UNCHANGED db

\* verify_github_ssh (lines 31-41): result is what verify_ssh_setup returned
VerifyGithubSsh(s, session, success) ==
    /\ Free(s)
    /\ Answer(s, "verify_github_ssh", session, EmptyDict,
              IF ~LoggedIn(session) THEN NotLoggedIn
              ELSE Response(200, [success |-> success]))
    /\ UNCHANGED db

\* the ids that requests name
Ids == 1..2

\* JSON bodies of create_project and update_project
ProjectBodies == {EmptyDict, [name |-> Str(<<"P">>)]}

\* JSON bodies of update_file
UpdateBodies ==
    {EmptyDict, [content |-> ContentB], [content |-> ContentB, commit_message |-> "m"]}

\* request.form and request.files of create_file
Forms ==
    {EmptyDict, [content |-> ContentA], [file |-> ""], [file |-> "x.png"],
     [file |-> "x.txt"]}

EnhanceBodies == {EmptyDict, [type |-> "bad"]}

ImportBodies == {EmptyDict, [repo_url |-> "o/r"]}

SearchArgs == {EmptyDict, [q |-> "x"]}

\* the handlers the blueprint registers for projects, files, GitHub and search
ProtectedRoutes ==
    {"get_projects", "create_project", "get_project", "update_project",
     "delete_project", "get_files", "create_file", "get_file", "get_file_content",
     "get_file_version", "update_file", "delete_file", "enhance_image",
     "publish_to_github", "import_from_github", "export_to_pdf", "search",
     "verify_github_ssh"}

\* what the file system or an integration may answer a request: only a request
\* with a login gets to ask
Outcomes(session) == IF LoggedIn(session) THEN BOOLEAN ELSE {TRUE}

\* requests handled one after another, each by slot 1
NextRoutes ==
    \/ \E session \in Sessions :
          handled < MaxRequests /\ GetProjects(1, session)
          /\ UNCHANGED <<exportVars, signVars, keyVars, composeVars, rtfVars>>
    \/ \E session \in Sessions, data \in ProjectBodies :
          handled < MaxRequests /\ CreateProject(1, session, data)
          /\ UNCHANGED <<exportVars, signVars, keyVars, composeVars, rtfVars>>
    \/ \E session \in Sessions, id \in Ids :
          handled < MaxRequests /\ GetProject(1, session, id)
          /\ UNCHANGED <<exportVars, signVars, keyVars, composeVars, rtfVars>>
    \/ \E session \in Sessions, id \in Ids, data \in ProjectBodies :
          handled < MaxRequests /\ UpdateProject(1, session, id, data)
          /\ UNCHANGED <<exportVars, signVars, keyVars, composeVars, rtfVars>>
    \/ \E session \in Sessions, id \in Ids :
          handled < MaxRequests /\ DeleteProject(1, session, id)
          /\ UNCHANGED <<exportVars, signVars, keyVars, composeVars, rtfVars>>
    \/ \E session \in Sessions, id \in Ids :
          handled < MaxRequests /\ GetFiles(1, session, id)
          /\ UNCHANGED <<exportVars, signVars, keyVars, composeVars, rtfVars>>
    \/ \E session \in Sessions, id \in Ids, form \in Forms :
       \E readable \in (IF form = [file |-> "x.txt"] THEN BOOLEAN ELSE {FALSE}) :
          handled < MaxRequests /\ CreateFile(1, session, id, form, readable)
          /\ UNCHANGED <<exportVars, signVars, keyVars, composeVars, rtfVars>>
    \/ \E session \in Sessions, id \in Ids :
          handled < MaxRequests /\ GetFile(1, session, id)
          /\ UNCHANGED <<exportVars, signVars, keyVars, composeVars, rtfVars>>
    \/ \E session \in Sessions, id \in Ids :
       \E sent \in Outcomes(session) :
          handled < MaxRequests /\ GetFileContent(1, session, id, sent)
          /\ UNCHANGED <<exportVars, signVars, keyVars, composeVars, rtfVars>>
    \/ \E session \in Sessions, id \in Ids, version_id \in {1} :
          handled < MaxRequests /\ GetFileVersion(1, session, id, version_id)
          /\ UNCHANGED <<exportVars, signVars, keyVars, composeVars, rtfVars>>
    \/ \E session \in Sessions, id \in Ids, data \in UpdateBodies :
          handled < MaxRequests /\ UpdateFileBegin(1, session, id, data)
          /\ UNCHANGED <<exportVars, signVars, keyVars, composeVars, rtfVars>>
    \/ UpdateFileQuery(1) /\ UNCHANGED <<exportVars, signVars, keyVars, composeVars, rtfVars>>
    \/ UpdateFileCommit(1) /\ UNCHANGED <<exportVars, signVars, keyVars, composeVars, rtfVars>>
    \/ \E session \in Sessions, id \in Ids :
          handled < MaxRequests /\ DeleteFile(1, session, id)
          /\ UNCHANGED <<exportVars, signVars, keyVars, composeVars, rtfVars>>
    \/ \E session \in Sessions, id \in Ids, data \in EnhanceBodies :
       \E success \in Outcomes(session) :
          handled < MaxRequests /\ EnhanceImage(1, session, id, data, success)
          /\ UNCHANGED <<exportVars, signVars, keyVars, composeVars, rtfVars>>
    \/ \E session \in Sessions, id \in Ids :
       \E success \in Outcomes(session) :
          handled < MaxRequests /\ PublishToGithub(1, session, id, success)
          /\ UNCHANGED <<exportVars, signVars, keyVars, composeVars, rtfVars>>
    \/ \E session \in Sessions, data \in ImportBodies :
       \E ssh \in Outcomes(session) :
       \E cloned \in (IF ssh THEN BOOLEAN ELSE {FALSE}) :
       \E repo_files \in (IF cloned THEN 0..1 ELSE {0}) :
          handled < MaxRequests /\ ImportFromGithub(1, session, data, ssh, cloned, repo_files)
          /\ UNCHANGED <<exportVars, signVars, keyVars, composeVars, rtfVars>>
    \/ \E session \in Sessions, id \in Ids :
       \E success \in Outcomes(session) :
          handled < MaxRequests /\ ExportToPdf(1, session, id, success)
          /\ UNCHANGED <<exportVars, signVars, keyVars, composeVars, rtfVars>>
    \/ \E session \in Sessions, args \in SearchArgs :
       \E success \in Outcomes(session) :
          handled < MaxRequests /\ Search(1, session, args, success)
          /\ UNCHANGED <<exportVars, signVars, keyVars, composeVars, rtfVars>>
    \/ \E session \in Sessions :
       \E success \in Outcomes(session) :
          handled < MaxRequests /\ VerifyGithubSsh(1, session, success)
          /\ UNCHANGED <<exportVars, signVars, keyVars, composeVars, rtfVars>>

\* the application starts on empty tables
RoutesInit ==
    /\ InitExport
    /\ InitSign
    /\ InitKeys
    /\ InitCompose
    /\ InitRtf
    /\ InitRoutes
    /\ key_files = NoKeyFiles
    /\ config = [SECRET_KEY |-> "you-will-never-guess"]

SpecRoutes == RoutesInit /\ [][NextRoutes]_vars

\* update requests handled at the same time, one per slot
NextUpdates ==
    \/ \E s \in Slots, session \in Sessions, data \in UpdateBodies :
          request[s].pc = "idle" /\ UpdateFileBegin(s, session, 1, data)
          /\ UNCHANGED <<exportVars, signVars, keyVars, composeVars, rtfVars>>
    \/ \E s \in Slots : UpdateFileQuery(s)
          /\ UNCHANGED <<exportVars, signVars, keyVars, composeVars, rtfVars>>
    \/ \E s \in Slots : UpdateFileTimeout(s)
          /\ UNCHANGED <<exportVars, signVars, keyVars, composeVars, rtfVars>>
    \/ \E s \in Slots : UpdateFileCommit(s)
          /\ UNCHANGED <<exportVars, signVars, keyVars, composeVars, rtfVars>>

\* alice's project holds one text file, as create_project and create_file left it;
\* the database is the one of config.py:6 or the one DATABASE_URL names
UpdatesInit ==
    /\ InitExport
    /\ InitSign
    /\ InitKeys
    /\ InitCompose
    /\ InitRtf
    /\ key_files = NoKeyFiles
    /\ config = [SECRET_KEY |-> "you-will-never-guess"]
    /\ \E engine \in {"sqlite", "mysql"} :
          db = [engine |-> engine,
                projects |-> {[id |-> 1, user_id |-> 1, name |-> Str(<<"P">>),
                               github_repo |-> None]},
                files |-> {[id |-> 1, project_id |-> 1, filename |-> "untitled.txt",
                            file_type |-> "text", content |-> ContentA]},
                versions |-> {[id |-> 1, file_id |-> 1, version_number |-> 1,
                               content |-> ContentA,
                               commit_message |-> "Initial version"]},
                locks |-> {}]
    /\ request = [s \in Slots |-> Idle]
    /\ handled = 0

SpecUpdates == UpdatesInit /\ [][NextUpdates]_vars

\* a handled request to a protected route that carried no login
Anonymous(r) ==
    r.pc = "done" /\ r.route \in ProtectedRoutes /\ "user_id" \notin DOMAIN r.session

\* C22: a request without a logged-in session to any project, file, GitHub or search
\* route is answered 401 with success false and the message 'Not logged in', and
\* the step that handles it changes no stored project, file or file version.
C22_LoginRequired ==
    /\ [](\A s \in Slots :
            Anonymous(request[s]) =>
                /\ request[s].response.status = 401
                /\ request[s].response.json = [success |-> FALSE,
                                               message |-> "Not logged in"])
    /\ [][\A s \in Slots :
            (request'[s] # request[s] /\ Anonymous(request'[s])) => db' = db]_vars

\* an anonymous request was turned away while a project, a file and a version are
\* stored
C22_Witness ==
    /\ Anonymous(request[1])
    /\ request[1].response.status = 401
    /\ db.projects # {} /\ db.files # {} /\ db.versions # {}

\* the FileVersion rows of a file in the tables d
VersionsOf(d, file_id) == {v \in d.versions : v.file_id = file_id}

VersionNumbers(d, file_id) == {v.version_number : v \in VersionsOf(d, file_id)}

\* slot s answers an update with 200 in this step
UpdateSucceeds(s) ==
    /\ request[s].pc = "commit"
    /\ request'[s].pc = "done"
    /\ request'[s].response.status = 200

\* C23: the step that completes an update of a text file adds exactly one file
\* version; its number is one more than the highest number the file had (1 when it
\* had none), and it holds the file's new content and the commit message of the
\* request. With the requests handled one after another, the numbers of every
\* file's versions are 1..n, each once.
C23_VersionPerUpdate ==
    /\ [][\A s \in Slots :
            UpdateSucceeds(s) =>
                LET file_id == request[s].file_id
                    before == VersionNumbers(db, file_id)
                    added == db'.versions \ db.versions
                IN  /\ db.versions \subseteq db'.versions
                    /\ Cardinality(added) = 1
                    /\ \A v \in added :
                          /\ v.file_id = file_id
                          /\ v.version_number =
                                 IF before = {} THEN 1 ELSE Max(before) + 1
                          /\ \A f \in db'.files : f.id = file_id => v.content = f.content
                          /\ "content" \in DOMAIN request[s].data =>
                                 v.content = request[s].data.content
                          /\ v.commit_message =
                                 Get(request[s].data, "commit_message", "Updated file")]_vars
    /\ [](\A f \in db.files :
            /\ VersionNumbers(db, f.id) = 1..Cardinality(VersionsOf(db, f.id)))

\* a file that create_file made has been updated twice: versions 1, 2 and 3
C23_Witness ==
    /\ request[1].pc = "done" /\ request[1].route = "update_file"
    /\ request[1].response.status = 200
    /\ \E f \in db.files : VersionNumbers(db, f.id) = 1..3

\* C24: a create-project request of a logged-in user whose body has no name is
\* answered 400 with success false. (That it creates no project holds: the
\* exception is raised before the row is added.)
C24_MissingNameRejected ==
    \A s \in Slots :
        LET r == request[s] IN
        (/\ r.pc = "done" /\ r.route = "create_project"
         /\ "user_id" \in DOMAIN r.session
         /\ "name" \notin DOMAIN r.data) =>
            /\ r.response.status = 400
            /\ r.response.json # None
            /\ r.response.json.success = FALSE

\* C28: whatever the interleaving of the update requests for a file, no two of its
\* versions carry the same version number.
C28_VersionNumbersUnique ==
    \A v \in db.versions, w \in db.versions :
        (v.file_id = w.file_id /\ v.id # w.id) => v.version_number # w.version_number

====
